---- MODULE Spec2Model ----
(***************************************************************************)
(* Focus Item Generation & Validation Engine (backend/app/llm_client.py).  *)
(*                                                                         *)
(* Python values are tagged records [t, v]:                                *)
(*   null, bool, int, str (a sequence of tokens), list, dict.              *)
(* A Python string is a sequence of whitespace-separated tokens.  The      *)
(* token WS stands for a run of blanks (only at the ends of identifiers),  *)
(* the token GLUE joins its two neighbours without a blank.  Characters    *)
(* outside Latin-1 are written with a Latin-1 character of the same        *)
(* length: o-tilde for o-double-acute, u-circumflex for u-double-acute,    *)
(* broken bar for the em dash, not-sign for the en dash, and the currency  *)
(* sign for a Hangul syllable.                                             *)
(***************************************************************************)
EXTENDS Integers, Sequences, FiniteSets, TLC

\* ------------------------------------------------------------------------
\* Python values
\* ------------------------------------------------------------------------
JNull == [t |-> "null"]
JBool(b) == [t |-> "bool", v |-> b]
JInt(n) == [t |-> "int", v |-> n]
JStr(s) == [t |-> "str", v |-> s]
JList(l) == [t |-> "list", v |-> l]
JDict(d) == [t |-> "dict", v |-> d]
EmptyDict == [t |-> "dict", v |-> <<>>]

WS == " "
GLUE == "<+>"

\* BEGIN TOKEN TABLE
\* <<token, token.lower(), NFKD(token) without combining marks and lowered,
\*   token.isascii()>> for every token that is not lower-case ASCII
TokenRows ==
  <<<<"'My", "'my", "'my", TRUE>>, <<"2¬3", "2¬3", "2¬3", FALSE>>, <<"A", "a", "a", TRUE>>,
    <<"A(z)", "a(z)", "a(z)", TRUE>>, <<"AI", "ai", "ai", TRUE>>,
    <<"AI-val", "ai-val", "ai-val", TRUE>>, <<"API", "api", "api", TRUE>>,
    <<"Alapok", "alapok", "alapok", TRUE>>, <<"Alapozó", "alapozó", "alapozo", FALSE>>,
    <<"Alkalmazd", "alkalmazd", "alkalmazd", TRUE>>,
    <<"Alkalmazás:", "alkalmazás:", "alkalmazas:", FALSE>>, <<"Alma", "alma", "alma", TRUE>>,
    <<"Angol", "angol", "angol", TRUE>>, <<"Anna.", "anna.", "anna.", TRUE>>,
    <<"Annyeong", "annyeong", "annyeong", TRUE>>, <<"Apply", "apply", "apply", TRUE>>,
    <<"AttributeError", "attributeerror", "attributeerror", TRUE>>, <<"Az", "az", "az", TRUE>>,
    <<"Azonosíthatók", "azonosíthatók", "azonosithatok", FALSE>>, <<"B", "b", "b", TRUE>>,
    <<"Banan", "banan", "banan", TRUE>>, <<"Bankbetét", "bankbetét", "bankbetet", FALSE>>,
    <<"Banán", "banán", "banan", FALSE>>, <<"Basic", "basic", "basic", TRUE>>,
    <<"Budgeting", "budgeting", "budgeting", TRUE>>, <<"By", "by", "by", TRUE>>,
    <<"C", "c", "c", TRUE>>, <<"Cat", "cat", "cat", TRUE>>, <<"Check", "check", "check", TRUE>>,
    <<"Claude", "claude", "claude", TRUE>>, <<"Clear", "clear", "clear", TRUE>>,
    <<"Clearly", "clearly", "clearly", TRUE>>, <<"Complete", "complete", "complete", TRUE>>,
    <<"Connections:", "connections:", "connections:", TRUE>>,
    <<"Correct:", "correct:", "correct:", TRUE>>, <<"Create", "create", "create", TRUE>>,
    <<"Csak", "csak", "csak", TRUE>>, <<"D", "d", "d", TRUE>>,
    <<"DIALOGUE", "dialogue", "dialogue", TRUE>>, <<"Day", "day", "day", TRUE>>,
    <<"Define", "define", "define", TRUE>>,
    <<"Definition:", "definition:", "definition:", TRUE>>,
    <<"Definíció:", "definíció:", "definicio:", FALSE>>,
    <<"Dialogue", "dialogue", "dialogue", TRUE>>, <<"Dog", "dog", "dog", TRUE>>,
    <<"Done", "done", "done", TRUE>>, <<"Draft", "draft", "draft", TRUE>>,
    <<"Ebben", "ebben", "ebben", TRUE>>, <<"Egy", "egy", "egy", TRUE>>,
    <<"Egyszerû", "egyszerû", "egyszeru", FALSE>>,
    <<"Ellenõrizd,", "ellenõrizd,", "ellenorizd,", FALSE>>,
    <<"Elméleti", "elméleti", "elmeleti", FALSE>>, <<"Elsõ", "elsõ", "elso", FALSE>>,
    <<"Elõször", "elõször", "eloszor", FALSE>>, <<"Error:", "error:", "error:", TRUE>>,
    <<"Example:", "example:", "example:", TRUE>>, <<"Exercise", "exercise", "exercise", TRUE>>,
    <<"Ez", "ez", "ez", TRUE>>, <<"False", "false", "false", TRUE>>,
    <<"First", "first", "first", TRUE>>, <<"Focus", "focus", "focus", TRUE>>,
    <<"Fogalmazd", "fogalmazd", "fogalmazd", TRUE>>,
    <<"Fordítás", "fordítás", "forditas", FALSE>>,
    <<"Fordítási", "fordítási", "forditasi", FALSE>>, <<"Fókusz", "fókusz", "fokusz", FALSE>>,
    <<"GRAMMAR", "grammar", "grammar", TRUE>>, <<"Gaps", "gaps", "gaps", TRUE>>,
    <<"Gondolkodás", "gondolkodás", "gondolkodas", FALSE>>, <<"Good", "good", "good", TRUE>>,
    <<"Gyakorlat", "gyakorlat", "gyakorlat", TRUE>>,
    <<"Gyakorlás", "gyakorlás", "gyakorlas", FALSE>>, <<"HU", "hu", "hu", TRUE>>,
    <<"Ha", "ha", "ha", TRUE>>, <<"Hello", "hello", "hello", TRUE>>,
    <<"Hello!", "hello!", "hello!", TRUE>>, <<"Hello,", "hello,", "hello,", TRUE>>,
    <<"Helló", "helló", "hello", FALSE>>, <<"Helló!", "helló!", "hello!", FALSE>>,
    <<"Here", "here", "here", TRUE>>, <<"Hogy", "hogy", "hogy", TRUE>>,
    <<"How", "how", "how", TRUE>>, <<"I", "i", "i", TRUE>>, <<"In", "in", "in", TRUE>>,
    <<"Interactive", "interactive", "interactive", TRUE>>,
    <<"Interaktív", "interaktív", "interaktiv", FALSE>>,
    <<"Jelentés", "jelentés", "jelentes", FALSE>>, <<"Just", "just", "just", TRUE>>,
    <<"Jó", "jó", "jo", FALSE>>, <<"Kapcsolódás:", "kapcsolódás:", "kapcsolodas:", FALSE>>,
    <<"Key", "key", "key", TRUE>>, <<"Koreai", "koreai", "koreai", TRUE>>,
    <<"Korean", "korean", "korean", TRUE>>, <<"Korlátok:", "korlátok:", "korlatok:", FALSE>>,
    <<"Kutya", "kutya", "kutya", TRUE>>, <<"Kvíz", "kvíz", "kviz", FALSE>>,
    <<"Kész", "kész", "kesz", FALSE>>, <<"Készpénz", "készpénz", "keszpenz", FALSE>>,
    <<"Készíts", "készíts", "keszits", FALSE>>, <<"Körte", "körte", "korte", FALSE>>,
    <<"Köszönés", "köszönés", "koszones", FALSE>>,
    <<"Köszönések", "köszönések", "koszonesek", FALSE>>,
    <<"Language", "language", "language", TRUE>>,
    <<"Language_Learning", "language_learning", "language_learning", TRUE>>,
    <<"Leaving", "leaving", "leaving", TRUE>>, <<"Lecke", "lecke", "lecke", TRUE>>,
    <<"Lesson", "lesson", "lesson", TRUE>>,
    <<"Limitations:", "limitations:", "limitations:", TRUE>>, <<"List", "list", "list", TRUE>>,
    <<"Ma", "ma", "ma", TRUE>>, <<"Macska", "macska", "macska", TRUE>>,
    <<"Mai", "mai", "mai", TRUE>>, <<"Measurable", "measurable", "measurable", TRUE>>,
    <<"Measuring", "measuring", "measuring", TRUE>>, <<"Melyik", "melyik", "melyik", TRUE>>,
    <<"Mi", "mi", "mi", TRUE>>, <<"Mikor", "mikor", "mikor", TRUE>>,
    <<"Mit", "mit", "mit", TRUE>>, <<"Mondatok", "mondatok", "mondatok", TRUE>>,
    <<"Mondd", "mondd", "mondd", TRUE>>, <<"My", "my", "my", TRUE>>,
    <<"Mérhetõ", "mérhetõ", "merheto", FALSE>>, <<"Mérhetõen", "mérhetõen", "merhetoen", FALSE>>,
    <<"Mûködés:", "mûködés:", "mukodes:", FALSE>>, <<"Nap", "nap", "nap", TRUE>>,
    <<"Napi", "napi", "napi", TRUE>>, <<"Ne", "ne", "ne", TRUE>>, <<"Nem", "nem", "nem", TRUE>>,
    <<"Nice", "nice", "nice", TRUE>>, <<"None", "none", "none", TRUE>>,
    <<"Nothing", "nothing", "nothing", TRUE>>,
    <<"Nyelvtanulás", "nyelvtanulás", "nyelvtanulas", FALSE>>, <<"Oldd", "oldd", "oldd", TRUE>>,
    <<"Option", "option", "option", TRUE>>, <<"Overloaded", "overloaded", "overloaded", TRUE>>,
    <<"Pattern:", "pattern:", "pattern:", TRUE>>, <<"Peter.", "peter.", "peter.", TRUE>>,
    <<"Practice", "practice", "practice", TRUE>>, <<"Próbáld", "próbáld", "probald", FALSE>>,
    <<"Pure", "pure", "pure", TRUE>>, <<"Párbeszéd", "párbeszéd", "parbeszed", FALSE>>,
    <<"Példa:", "példa:", "pelda:", FALSE>>, <<"Péter.", "péter.", "peter.", FALSE>>,
    <<"Quiz", "quiz", "quiz", TRUE>>, <<"Rule:", "rule:", "rule:", TRUE>>,
    <<"RuntimeError", "runtimeerror", "runtimeerror", TRUE>>,
    <<"Részvény", "részvény", "reszveny", FALSE>>, <<"Rövid", "rövid", "rovid", FALSE>>,
    <<"Semmi", "semmi", "semmi", TRUE>>, <<"Sentence", "sentence", "sentence", TRUE>>,
    <<"Short", "short", "short", TRUE>>, <<"Simple", "simple", "simple", TRUE>>,
    <<"Skipping", "skipping", "skipping", TRUE>>, <<"Sorolj", "sorolj", "sorolj", TRUE>>,
    <<"Sorry,", "sorry,", "sorry,", TRUE>>, <<"Speaking", "speaking", "speaking", TRUE>>,
    <<"Summarize", "summarize", "summarize", TRUE>>, <<"Summary", "summary", "summary", TRUE>>,
    <<"Szilva", "szilva", "szilva", TRUE>>, <<"Számok", "számok", "szamok", FALSE>>,
    <<"TASK", "task", "task", TRUE>>, <<"Tananyag", "tananyag", "tananyag", TRUE>>,
    <<"Tartalom", "tartalom", "tartalom", TRUE>>, <<"Terv", "terv", "terv", TRUE>>,
    <<"The", "the", "the", TRUE>>, <<"This", "this", "this", TRUE>>,
    <<"Today", "today", "today", TRUE>>, <<"Today's", "today's", "today's", TRUE>>,
    <<"Translation", "translation", "translation", TRUE>>, <<"True", "true", "true", TRUE>>,
    <<"Type", "type", "type", TRUE>>, <<"TypeError", "typeerror", "typeerror", TRUE>>,
    <<"Tölts", "tölts", "tolts", FALSE>>, <<"Túl", "túl", "tul", FALSE>>,
    <<"Unclear", "unclear", "unclear", TRUE>>, <<"Upload", "upload", "upload", TRUE>>,
    <<"Use", "use", "use", TRUE>>, <<"Using", "using", "using", TRUE>>,
    <<"VOCABULARY", "vocabulary", "vocabulary", TRUE>>, <<"Vissza", "vissza", "vissza", TRUE>>,
    <<"Válaszd", "válaszd", "valaszd", FALSE>>, <<"Végezd", "végezd", "vegezd", FALSE>>,
    <<"We", "we", "we", TRUE>>, <<"What", "what", "what", TRUE>>,
    <<"When", "when", "when", TRUE>>, <<"Which", "which", "which", TRUE>>,
    <<"Write", "write", "write", TRUE>>, <<"Writing", "writing", "writing", TRUE>>,
    <<"alkalmazásakor?", "alkalmazásakor?", "alkalmazasakor?", FALSE>>,
    <<"alábbi", "alábbi", "alabbi", FALSE>>,
    <<"bemutatkozás:", "bemutatkozás:", "bemutatkozas:", FALSE>>,
    <<"bemutatkozó", "bemutatkozó", "bemutatkozo", FALSE>>,
    <<"bengáli", "bengáli", "bengali", FALSE>>, <<"betûk", "betûk", "betuk", FALSE>>,
    <<"cél", "cél", "cel", FALSE>>, <<"cél,", "cél,", "cel,", FALSE>>,
    <<"célja", "célja", "celja", FALSE>>, <<"célját", "célját", "celjat", FALSE>>,
    <<"céllal.", "céllal.", "cellal.", FALSE>>, <<"célt", "célt", "celt", FALSE>>,
    <<"dayIndex", "dayindex", "dayindex", TRUE>>, <<"dán", "dán", "dan", FALSE>>,
    <<"dönteni.", "dönteni.", "donteni.", FALSE>>, <<"döntést", "döntést", "dontest", FALSE>>,
    <<"egyszerû", "egyszerû", "egyszeru", FALSE>>,
    <<"egyértelmû", "egyértelmû", "egyertelmu", FALSE>>,
    <<"elhagyása", "elhagyása", "elhagyasa", FALSE>>,
    <<"ellenõrzõlista", "ellenõrzõlista", "ellenorzolista", FALSE>>,
    <<"elmélet,", "elmélet,", "elmelet,", FALSE>>, <<"elsõ", "elsõ", "elso", FALSE>>,
    <<"elvégeztél.", "elvégeztél.", "elvegeztel.", FALSE>>, <<"elvét", "elvét", "elvet", FALSE>>,
    <<"elérni.", "elérni.", "elerni.", FALSE>>, <<"elérése.", "elérése.", "elerese.", FALSE>>,
    <<"elérésében,", "elérésében,", "elereseben,", FALSE>>,
    <<"eredmény", "eredmény", "eredmeny", FALSE>>,
    <<"eredmény.", "eredmény.", "eredmeny.", FALSE>>,
    <<"eredményre.", "eredményre.", "eredmenyre.", FALSE>>,
    <<"eredményt", "eredményt", "eredmenyt", FALSE>>,
    <<"eredményt.", "eredményt.", "eredmenyt.", FALSE>>,
    <<"feltöltés", "feltöltés", "feltoltes", FALSE>>,
    <<"foglalkozás.", "foglalkozás.", "foglalkozas.", FALSE>>,
    <<"fordítása", "fordítása", "forditasa", FALSE>>, <<"fájlt,", "fájlt,", "fajlt,", FALSE>>,
    <<"fõ", "fõ", "fo", FALSE>>, <<"generálása", "generálása", "generalasa", FALSE>>,
    <<"generálást.", "generálást.", "generalast.", FALSE>>, <<"grúz", "grúz", "gruz", FALSE>>,
    <<"görög", "görög", "gorog", FALSE>>, <<"használata.", "használata.", "hasznalata.", FALSE>>,
    <<"használd", "használd", "hasznald", FALSE>>,
    <<"határidõt.", "határidõt.", "hataridot.", FALSE>>,
    <<"hiányok.", "hiányok.", "hianyok.", FALSE>>, <<"hosszú", "hosszú", "hosszu", FALSE>>,
    <<"hosszú,", "hosszú,", "hosszu,", FALSE>>, <<"héber", "héber", "heber", FALSE>>,
    <<"hétköznapi", "hétköznapi", "hetkoznapi", FALSE>>,
    <<"ideális", "ideális", "idealis", FALSE>>,
    <<"inspiráció,", "inspiráció,", "inspiracio,", FALSE>>,
    <<"ismételd", "ismételd", "ismeteld", FALSE>>, <<"japán", "japán", "japan", FALSE>>,
    <<"javulás", "javulás", "javulas", FALSE>>, <<"jól", "jól", "jol", FALSE>>,
    <<"kapcsolódó", "kapcsolódó", "kapcsolodo", FALSE>>,
    <<"kapcsán.", "kapcsán.", "kapcsan.", FALSE>>, <<"kellõen", "kellõen", "kelloen", FALSE>>,
    <<"kezdõ", "kezdõ", "kezdo", FALSE>>, <<"kihagyása", "kihagyása", "kihagyasa", FALSE>>,
    <<"kihagyása.", "kihagyása.", "kihagyasa.", FALSE>>,
    <<"kizárólag", "kizárólag", "kizarolag", FALSE>>, <<"konkrét", "konkrét", "konkret", FALSE>>,
    <<"konkrét,", "konkrét,", "konkret,", FALSE>>,
    <<"konkrétumok", "konkrétumok", "konkretumok", FALSE>>, <<"kvíz", "kvíz", "kviz", FALSE>>,
    <<"kávézóban", "kávézóban", "kavezoban", FALSE>>, <<"képes", "képes", "kepes", FALSE>>,
    <<"kérdés-válasz", "kérdés-válasz", "kerdes-valasz", FALSE>>,
    <<"kínai", "kínai", "kinai", FALSE>>, <<"körte", "körte", "korte", FALSE>>,
    <<"köszönni,", "köszönni,", "koszonni,", FALSE>>,
    <<"köszönéseket", "köszönéseket", "koszoneseket", FALSE>>,
    <<"köszönést", "köszönést", "koszonest", FALSE>>,
    <<"köszönöm", "köszönöm", "koszonom", FALSE>>, <<"köti", "köti", "koti", FALSE>>,
    <<"követelményt", "követelményt", "kovetelmenyt", FALSE>>,
    <<"követhetõ", "követhetõ", "kovetheto", FALSE>>,
    <<"következõ", "következõ", "kovetkezo", FALSE>>,
    <<"leckében", "leckében", "leckeben", FALSE>>,
    <<"leckében.", "leckében.", "leckeben.", FALSE>>,
    <<"lekötése", "lekötése", "lekotese", FALSE>>, <<"lásd", "lásd", "lasd", FALSE>>,
    <<"látszik.", "látszik.", "latszik.", FALSE>>, <<"lényege,", "lényege,", "lenyege,", FALSE>>,
    <<"lényegi", "lényegi", "lenyegi", FALSE>>, <<"lényegre", "lényegre", "lenyegre", FALSE>>,
    <<"lényegét?", "lényegét?", "lenyeget?", FALSE>>, <<"lépés)", "lépés)", "lepes)", FALSE>>,
    <<"lépései", "lépései", "lepesei", FALSE>>,
    <<"lépéseinek", "lépéseinek", "lepeseinek", FALSE>>,
    <<"lépéseit.", "lépéseit.", "lepeseit.", FALSE>>, <<"lépések", "lépések", "lepesek", FALSE>>,
    <<"lépéseket", "lépéseket", "lepeseket", FALSE>>, <<"lépésre", "lépésre", "lepesre", FALSE>>,
    <<"lépésrõl", "lépésrõl", "lepesrol", FALSE>>, <<"lépést", "lépést", "lepest", FALSE>>,
    <<"megfogalmazás", "megfogalmazás", "megfogalmazas", FALSE>>,
    <<"megfogalmazása.", "megfogalmazása.", "megfogalmazasa.", FALSE>>,
    <<"meghatározni.", "meghatározni.", "meghatarozni.", FALSE>>,
    <<"megoldást", "megoldást", "megoldast", FALSE>>,
    <<"megszólalni", "megszólalni", "megszolalni", FALSE>>,
    <<"megvalósítás", "megvalósítás", "megvalositas", FALSE>>,
    <<"megvalósítást.", "megvalósítást.", "megvalositast.", FALSE>>,
    <<"minták", "minták", "mintak", FALSE>>, <<"második.", "második.", "masodik.", FALSE>>,
    <<"méred", "méred", "mered", FALSE>>, <<"mérhetõ", "mérhetõ", "merheto", FALSE>>,
    <<"mérése.", "mérése.", "merese.", FALSE>>, <<"mûködött?", "mûködött?", "mukodott?", FALSE>>,
    <<"norvég", "norvég", "norveg", FALSE>>, <<"nélkül.", "nélkül.", "nelkul.", FALSE>>,
    <<"német", "német", "nemet", FALSE>>, <<"név", "név", "nev", FALSE>>,
    <<"név,", "név,", "nev,", FALSE>>, <<"név.", "név.", "nev.", FALSE>>,
    <<"olvasható.", "olvasható.", "olvashato.", FALSE>>, <<"opció", "opció", "opcio", FALSE>>,
    <<"portugál", "portugál", "portugal", FALSE>>,
    <<"párbeszéd", "párbeszéd", "parbeszed", FALSE>>, <<"példát,", "példát,", "peldat,", FALSE>>,
    <<"rakétatudomány:", "rakétatudomány:", "raketatudomany:", FALSE>>,
    <<"román", "román", "roman", FALSE>>, <<"rövid", "rövid", "rovid", FALSE>>,
    <<"röviden", "röviden", "roviden", FALSE>>, <<"röviden.", "röviden.", "roviden.", FALSE>>,
    <<"saját", "saját", "sajat", FALSE>>, <<"segít", "segít", "segit", FALSE>>,
    <<"segítene.", "segítene.", "segitene.", FALSE>>,
    <<"semmiféle", "semmiféle", "semmifele", FALSE>>, <<"svéd", "svéd", "sved", FALSE>>,
    <<"szeretnél", "szeretnél", "szeretnel", FALSE>>,
    <<"szituációval", "szituációval", "szituacioval", FALSE>>,
    <<"szolgál.", "szolgál.", "szolgal.", FALSE>>,
    <<"származás,", "származás,", "szarmazas,", FALSE>>, <<"szó", "szó", "szo", FALSE>>,
    <<"szó?", "szó?", "szo?", FALSE>>, <<"szókincset", "szókincset", "szokincset", FALSE>>,
    <<"szót.", "szót.", "szot.", FALSE>>, <<"szöveg", "szöveg", "szoveg", FALSE>>,
    <<"szövegalkotás", "szövegalkotás", "szovegalkotas", FALSE>>,
    <<"szövege", "szövege", "szovege", FALSE>>, <<"szöveget", "szöveget", "szoveget", FALSE>>,
    <<"szükség", "szükség", "szukseg", FALSE>>, <<"szükséged", "szükséged", "szukseged", FALSE>>,
    <<"találkozás", "találkozás", "talalkozas", FALSE>>,
    <<"találkozáskor", "találkozáskor", "talalkozaskor", FALSE>>,
    <<"találkozáskor.", "találkozáskor.", "talalkozaskor.", FALSE>>,
    <<"torzít.", "torzít.", "torzit.", FALSE>>, <<"tudás,", "tudás,", "tudas,", FALSE>>,
    <<"távú", "távú", "tavu", FALSE>>, <<"témához", "témához", "temahoz", FALSE>>,
    <<"témáról.", "témáról.", "temarol.", FALSE>>, <<"témát", "témát", "temat", FALSE>>,
    <<"törõ", "törõ", "toro", FALSE>>, <<"török", "török", "torok", FALSE>>,
    <<"tûzöl", "tûzöl", "tuzol", FALSE>>, <<"ukrán", "ukrán", "ukran", FALSE>>,
    <<"után", "után", "utan", FALSE>>, <<"utánam", "utánam", "utanam", FALSE>>,
    <<"valós", "valós", "valos", FALSE>>, <<"vesszük", "vesszük", "vesszuk", FALSE>>,
    <<"világos,", "világos,", "vilagos,", FALSE>>,
    <<"világosan", "világosan", "vilagosan", FALSE>>,
    <<"visszajelzésre.", "visszajelzésre.", "visszajelzesre.", FALSE>>,
    <<"válasz", "válasz", "valasz", FALSE>>, <<"válasz:", "válasz:", "valasz:", FALSE>>,
    <<"válasz?", "válasz?", "valasz?", FALSE>>,
    <<"válaszolni.", "válaszolni.", "valaszolni.", FALSE>>,
    <<"választ.", "választ.", "valaszt.", FALSE>>,
    <<"választják.", "választják.", "valasztjak.", FALSE>>,
    <<"változott.", "változott.", "valtozott.", FALSE>>,
    <<"vásárlása", "vásárlása", "vasarlasa", FALSE>>, <<"végére", "végére", "vegere", FALSE>>,
    <<"véletlenszerû", "véletlenszerû", "veletlenszeru", FALSE>>,
    <<"véletlenszerûen", "véletlenszerûen", "veletlenszeruen", FALSE>>, <<"¤", "¤", "¤", FALSE>>,
    <<"¤¤", "¤¤", "¤¤", FALSE>>, <<"¤¤¤", "¤¤¤", "¤¤¤", FALSE>>, <<"¦", "¦", "¦", FALSE>>,
    <<"Állampapír", "állampapír", "allampapir", FALSE>>, <<"Állíts", "állíts", "allits", FALSE>>,
    <<"Írd", "írd", "ird", FALSE>>, <<"Írj", "írj", "irj", FALSE>>,
    <<"Írás", "írás", "iras", FALSE>>, <<"Írási", "írási", "irasi", FALSE>>,
    <<"Örülök,", "örülök,", "orulok,", FALSE>>,
    <<"Összefoglaló", "összefoglaló", "osszefoglalo", FALSE>>,
    <<"állítás", "állítás", "allitas", FALSE>>, <<"állítást.", "állítást.", "allitast.", FALSE>>,
    <<"általános", "általános", "altalanos", FALSE>>, <<"át", "át", "at", FALSE>>,
    <<"áttekintés", "áttekintés", "attekintes", FALSE>>,
    <<"áttekintés.", "áttekintés.", "attekintes.", FALSE>>,
    <<"érdemes", "érdemes", "erdemes", FALSE>>, <<"érthetõen", "érthetõen", "erthetoen", FALSE>>,
    <<"és", "és", "es", FALSE>>, <<"írja", "írja", "irja", FALSE>>,
    <<"írása", "írása", "irasa", FALSE>>, <<"írásban.", "írásban.", "irasban.", FALSE>>,
    <<"örmény", "örmény", "ormeny", FALSE>>, <<"össze", "össze", "ossze", FALSE>>,
    <<"összekeverése", "összekeverése", "osszekeverese", FALSE>>,
    <<"összekeverése.", "összekeverése.", "osszekeverese.", FALSE>>,
    <<"újra", "újra", "ujra", FALSE>>, <<"útmutató", "útmutató", "utmutato", FALSE>>>>

\* token :> <<lower, normalized, isascii>>
TokenTable ==
  [tok \in {TokenRows[i][1] : i \in DOMAIN TokenRows} |->
     LET r == TokenRows[CHOOSE i \in DOMAIN TokenRows : TokenRows[i][1] = tok]
     IN <<r[2], r[3], r[4]>>] @@ <<>>

\* END TOKEN TABLE

\* str.lower() on one token
LowerTok(tok) == IF tok \in DOMAIN TokenTable THEN TokenTable[tok][1] ELSE tok

\* _normalize_for_match on one token: NFKD, combining marks dropped, lower()
NormTok(tok) == IF tok \in DOMAIN TokenTable THEN TokenTable[tok][2] ELSE tok

\* str.isascii() on one token
AsciiTok(tok) == IF tok \in DOMAIN TokenTable THEN TokenTable[tok][3] ELSE TRUE

\* str.isascii()
IsAscii(s) == \A i \in 1..Len(s) : AsciiTok(s[i])

\* str.lower()
Lower(s) == [i \in 1..Len(s) |-> LowerTok(s[i])]

RECURSIVE LStrip(_)
LStrip(s) == IF s # <<>> /\ Head(s) = WS THEN LStrip(Tail(s)) ELSE s

RECURSIVE RStrip(_)
RStrip(s) == IF s # <<>> /\ s[Len(s)] = WS THEN RStrip(SubSeq(s, 1, Len(s) - 1)) ELSE s

\* str.strip()
Strip(s) == RStrip(LStrip(s))

\* an interpolated value inside an f-string: the empty string is an empty word
Hole(s) == IF s = <<>> THEN <<"">> ELSE s

Max(a, b) == IF a >= b THEN a ELSE b
Min(a, b) == IF a <= b THEN a ELSE b

TokLen(tok) == IF tok = GLUE THEN 0 ELSE Len(tok)

\* a blank separates two neighbouring tokens unless one is GLUE or WS
Separated(a, b) == a # GLUE /\ b # GLUE /\ a # WS /\ b # WS

RECURSIVE StrLenFrom(_, _)
StrLenFrom(s, i) ==
  IF i > Len(s) THEN 0
  ELSE TokLen(s[i])
       + (IF i < Len(s) /\ Separated(s[i], s[i + 1]) THEN 1 ELSE 0)
       + StrLenFrom(s, i + 1)

\* len(s) for a str
StrLen(s) == StrLenFrom(s, 1)

\* len(s.split()): the words of s
WordCount(s) ==
  Cardinality({i \in 1..Len(s) :
                 /\ s[i] \notin {GLUE, WS, ""}
                 /\ (i = 1 \/ s[i - 1] # GLUE)})

\* pat in s, for a pattern of whole words
Contains(s, pat) ==
  \E i \in 0..(Len(s) - Len(pat)) : \A j \in 1..Len(pat) : s[i + j] = pat[j]

\* s.startswith(w) for a one-word prefix
StartsWithWord(s, w) == s # <<>> /\ s[1] = w

\* _normalize_for_match
normalize_for_match(s) == Strip([i \in 1..Len(s) |-> NormTok(s[i])])

\* str(x) for a value that is not a str
PyRepr(x) ==
  CASE x.t = "null" -> <<"None">>
    [] x.t = "bool" -> IF x.v THEN <<"True">> ELSE <<"False">>
    [] x.t = "int" -> <<ToString(x.v)>>
    [] OTHER -> <<"<object>">>

\* bool(x)
Truthy(x) ==
  CASE x.t = "null" -> FALSE
    [] x.t = "bool" -> x.v
    [] x.t = "int" -> x.v # 0
    [] x.t = "str" -> x.v # <<>>
    [] x.t = "list" -> x.v # <<>>
    [] x.t = "dict" -> DOMAIN x.v # {}

\* ------------------------------------------------------------------------
\* Canonical schema tables
\* ------------------------------------------------------------------------
VALID_KINDS == {"content", "quiz", "checklist", "upload_review", "translation",
                "cards", "roleplay", "writing", "briefing", "feedback", "smart_lesson"}

KIND_FROM_PRACTICE_TYPE ==
  [translation |-> "translation", exercise |-> "roleplay", roleplay |-> "roleplay",
   dialogue |-> "roleplay", quiz |-> "quiz", cards |-> "cards",
   flashcard |-> "cards", writing |-> "writing", speaking |-> "checklist",
   practice_speaking |-> "checklist", task |-> "checklist"]

\* ------------------------------------------------------------------------
\* Kind Resolver
\* ------------------------------------------------------------------------
\* the direct table with flashcard sent to quiz
determine_item_kind_flashcard(item_type, practice_type) ==
  CASE item_type = <<"briefing">> -> "briefing"
    [] item_type = <<"feedback">> -> "feedback"
    [] item_type = <<"smart_lesson">> -> "smart_lesson"
    [] item_type = <<"quiz">> -> "quiz"
    [] item_type = <<"flashcard">> -> "quiz"
    [] item_type = <<"lesson">> -> "content"
    [] item_type = <<"task">> -> "checklist"
    [] OTHER ->
         LET pt == IF practice_type.t = "str" THEN Strip(Lower(practice_type.v)) ELSE <<>>
         IN IF Truthy(practice_type) /\ Len(pt) = 1 /\ pt[1] \in DOMAIN KIND_FROM_PRACTICE_TYPE
            THEN KIND_FROM_PRACTICE_TYPE[pt[1]]
            ELSE "checklist"

\* item_type: a str (token sequence); practice_type: a Python value (None or str)
determine_item_kind(item_type, practice_type) ==
  CASE item_type = <<"briefing">> -> "briefing"
    [] item_type = <<"feedback">> -> "feedback"
    [] item_type = <<"smart_lesson">> -> "smart_lesson"
    [] item_type = <<"quiz">> -> "quiz"
    [] item_type = <<"flashcard">> -> "cards"
    [] item_type = <<"lesson">> -> "content"
    [] item_type = <<"task">> -> "checklist"
    [] OTHER ->
         LET pt == IF practice_type.t = "str" THEN Strip(Lower(practice_type.v)) ELSE <<>>
         IN IF Truthy(practice_type) /\ Len(pt) = 1 /\ pt[1] \in DOMAIN KIND_FROM_PRACTICE_TYPE
            THEN KIND_FROM_PRACTICE_TYPE[pt[1]]
            ELSE "checklist"

\* generate_focus_item: defensive coercion of a str argument
CoerceStr(x, dflt) ==
  IF x.t # "str" THEN PyRepr(x) ELSE IF x.v = <<>> THEN dflt ELSE x.v

\* generate_focus_item: practice_type stays None or becomes a str
CoercePractice(x) ==
  IF x.t # "null" /\ x.t # "str" THEN JStr(PyRepr(x)) ELSE x

LANGUAGE_DOMAINS == {<<"language_learning">>, <<"language">>}
LANGUAGE_ONLY_TYPES == {<<"translation">>, <<"flashcard">>, <<"cards">>}
LANGUAGE_ONLY_PRACTICE_TYPES ==
  {<<"translation">>, <<"exercise">>, <<"roleplay">>, <<"dialogue">>, <<"speaking">>}

is_language_domain(domain) == Lower(domain) \in LANGUAGE_DOMAINS

\* DOMAIN GUARD of generate_focus_item: the rewriting, given the two tests
GuardRewrite(item_type, practice_type, blockType, blockPractice) ==
  [item_type |-> IF blockType THEN <<"quiz">> ELSE item_type,
   practice_type |-> IF blockType \/ blockPractice THEN JNull ELSE practice_type]

\* DOMAIN GUARD of generate_focus_item: item_type and practice_type after it.
\* practice_type_lower is taken before the guard rewrites practice_type.
DomainGuard(item_type, practice_type, domain) ==
  GuardRewrite(item_type, practice_type,
               ~is_language_domain(domain) /\ Lower(item_type) \in LANGUAGE_ONLY_TYPES,
               ~is_language_domain(domain)
               /\ (IF Truthy(practice_type) THEN Lower(practice_type.v) ELSE <<>>)
                     \in LANGUAGE_ONLY_PRACTICE_TYPES)

allowed_kinds == {"content", "quiz", "checklist", "upload_review", "cards", "translation",
                  "roleplay", "writing", "briefing", "feedback", "smart_lesson"}

\* the kind of the guarded arguments
GuardedKind(g) == determine_item_kind(g.item_type, g.practice_type)

\* generate_focus_item: a kind outside the allowed kinds becomes a default
DefaultKind(k, item_type_lower) ==
  IF k \in allowed_kinds THEN k
  ELSE IF item_type_lower = <<"lesson">> THEN "content" ELSE "checklist"

\* no default and no allowed-kinds coercion
NoDefaultKind(k, g) == IF k = "checklist" /\ g.item_type # <<"task">> THEN "none" ELSE k

\* the coerced arguments after the DOMAIN GUARD
Guarded(item_type_arg, practice_type_arg, domain_arg) ==
  DomainGuard(CoerceStr(item_type_arg, <<"lesson">>), CoercePractice(practice_type_arg),
              CoerceStr(domain_arg, <<"other">>))

\* kind selection without a default and without the allowed-kinds coercion
SelectKindNoDefault(g) == NoDefaultKind(GuardedKind(g), g)

ResolveKindNoDefault(item_type_arg, practice_type_arg, domain_arg) ==
  SelectKindNoDefault(Guarded(item_type_arg, practice_type_arg, domain_arg))

\* generate_focus_item up to the kind selection, on the raw arguments
ResolveKind(item_type_arg, practice_type_arg, domain_arg) ==
  DefaultKind(GuardedKind(Guarded(item_type_arg, practice_type_arg, domain_arg)),
              Lower(CoerceStr(item_type_arg, <<"lesson">>)))

\* ------------------------------------------------------------------------
\* Fallback Generator
\* ------------------------------------------------------------------------
KIND_VALIDATION_RULES ==
  [content |-> [min_chars |-> 0, min_items |-> 0, input_type |-> "none"],
   translation |-> [min_chars |-> 10, min_items |-> 1, input_type |-> "multi_text"],
   quiz |-> [min_chars |-> 0, min_items |-> 1, input_type |-> "choice"],
   cards |-> [min_chars |-> 0, min_items |-> 3, input_type |-> "none"],
   roleplay |-> [min_chars |-> 80, min_items |-> 1, input_type |-> "text"],
   writing |-> [min_chars |-> 120, min_items |-> 1, input_type |-> "text"],
   checklist |-> [min_chars |-> 60, min_items |-> 1, input_type |-> "text"],
   upload_review |-> [min_chars |-> 0, min_items |-> 1, input_type |-> "file"],
   briefing |-> [min_chars |-> 0, min_items |-> 0, input_type |-> "none"],
   feedback |-> [min_chars |-> 0, min_items |-> 0, input_type |-> "none"],
   smart_lesson |-> [min_chars |-> 0, min_items |-> 1, input_type |-> "choice"]]

\* KIND_VALIDATION_RULES.get(kind, {})
RulesOf(kind) == IF kind \in DOMAIN KIND_VALIDATION_RULES THEN KIND_VALIDATION_RULES[kind] ELSE <<>>

\* rules.get(key, dflt)
RuleGet(rules, key, dflt) == IF key \in DOMAIN rules THEN rules[key] ELSE dflt

\* dict operations on a dict value
Has(d, k) == k \in DOMAIN d.v
Get(d, k, dflt) == IF k \in DOMAIN d.v THEN d.v[k] ELSE dflt
DSet(d, k, x) == JDict((k :> x) @@ d.v)
DSet2(d, k1, k2, x) == DSet(d, k1, DSet(d.v[k1], k2, x))

RECURSIVE SumTokLen(_)
SumTokLen(s) == IF s = <<>> THEN 0 ELSE TokLen(Head(s)) + SumTokLen(Tail(s))

\* hash(s) of a str: salted by the interpreter's per-process hash seed
\* (PYTHONHASHSEED, random unless set), so it is a function of (seed, s)
PyHash(seed, s) == (SumTokLen(s) * 7919 + Len(s) * 104729) * (2 * seed + 1) + 15485863 * seed

\* (lang or "hu").lower().startswith("hu")
IsHu(lang) ==
  LET l == Lower(IF lang = <<>> THEN <<"hu">> ELSE lang)
  IN l[1] \in {"hu", "hu-hu", "hun", "hungarian"}

\* _create_fallback_item: the base dict
FallbackBase(kind, topic, label, is_hu, minutes, rules, seed) ==
  JDict([
      schema_version |-> JStr(<<"1.0">>),
      kind |-> JStr(<<kind>>),
      idempotency_key |-> JStr(<<"fallback-", GLUE, kind, GLUE, "-", GLUE, ToString(PyHash(seed, topic) % 10000)>>),
      title |-> JStr(label),
      subtitle |-> JStr(topic),
      estimated_minutes |-> JInt(minutes),
      difficulty |-> JStr(<<"normal">>),
      instructions_md |-> (IF is_hu THEN JStr(<<"Végezd", "el", "a", "feladatot", "az", "alábbi", "útmutató", "szerint.">>)
        ELSE JStr(<<"Complete", "the", "task", "following", "the", "guide", "below.">>)),
      rubric_md |-> (IF is_hu THEN JStr(<<"Ellenõrizd,", "hogy", "minden", "lépést", "elvégeztél.">>)
        ELSE JStr(<<"Check", "that", "you", "completed", "all", "steps.">>)),
      ui |-> JDict([
          primary_cta |-> (IF is_hu THEN JStr(<<"Kész">>)
            ELSE JStr(<<"Done">>)),
          secondary_cta |-> JNull]),
      input |-> JDict([
          type |-> JStr(<<RuleGet(rules, "input_type", "text")>>),
          placeholder |-> (IF is_hu THEN JStr(<<"Írd", "ide...">>)
            ELSE JStr(<<"Type", "here...">>))]),
      validation |-> JDict([
          require_interaction |-> JBool(TRUE),
          min_chars |-> JInt(RuleGet(rules, "min_chars", 20)),
          min_items |-> JInt(RuleGet(rules, "min_items", 1))]),
      scoring |-> JDict([
          mode |-> JStr(<<"manual">>),
          max_points |-> JInt(10)])])

\* _create_fallback_item: content of a smart_lesson
FallbackSmartLesson(topic, is_hu, minutes) ==
  JDict([
      hook |-> (IF is_hu THEN JStr(<<"Ma", "a(z)", "**", GLUE>> \o Hole(topic) \o <<GLUE, "**", "témát", "vesszük", "át", "¦", "egy", "gyors,", "lényegre", "törõ", "leckében.">>)
        ELSE JStr(<<"Today", "we", "cover", "**", GLUE>> \o Hole(topic) \o <<GLUE, "**", "¦", "fast,", "practical,", "and", "straight", "to", "the", "point.">>)),
      micro_task_1 |-> JDict([
          instruction |-> (IF is_hu THEN JStr(<<"Melyik", "állítás", "írja", "le", "legjobban", "a(z)">> \o Hole(topic) \o <<"lényegét?">>)
            ELSE JStr(<<"Which", "statement", "best", "describes">> \o Hole(topic) \o <<GLUE, "?">>)),
          options |-> JList(<<
              (IF is_hu THEN JStr(<<"A(z)">> \o Hole(topic) \o <<"segít", "konkrét", "célt", "és", "lépéseket", "meghatározni.">>)
                ELSE JStr(Hole(topic) \o <<"helps", "define", "clear", "goals", "and", "steps.">>)),
              (IF is_hu THEN JStr(<<"Csak", "általános", "inspiráció,", "konkrét", "lépések", "nélkül.">>)
                ELSE JStr(<<"Just", "general", "inspiration", "without", "concrete", "steps.">>)),
              (IF is_hu THEN JStr(<<"Elméleti", "tudás,", "amit", "nem", "lehet", "a", "gyakorlatban", "alkalmazni.">>)
                ELSE JStr(<<"Pure", "theory", "with", "no", "practical", "application.">>))>>),
          correct_index |-> JInt(0),
          explanation |-> (IF is_hu THEN JStr(<<"A", "helyes", "válasz:", "konkrét", "cél", "+", "lépések", "=", "eredmény.">>)
            ELSE JStr(<<"Correct:", "clear", "goal", "+", "steps", "=", "results.">>))]),
      micro_task_2 |-> JDict([
          instruction |-> (IF is_hu THEN JStr(<<"Mikor", "érdemes", "a(z)">> \o Hole(topic) \o <<"elvét", "alkalmazni?">>)
            ELSE JStr(<<"When", "is", "it", "worth", "applying">> \o Hole(topic) \o <<GLUE, "?">>)),
          options |-> JList(<<
              (IF is_hu THEN JStr(<<"Ha", "konkrét,", "mérhetõ", "eredményt", "szeretnél", "elérni.">>)
                ELSE JStr(<<"When", "you", "want", "a", "concrete,", "measurable", "outcome.">>)),
              (IF is_hu THEN JStr(<<"Ha", "nincs", "szükséged", "semmiféle", "visszajelzésre.">>)
                ELSE JStr(<<"When", "you", "need", "no", "feedback", "at", "all.">>)),
              (IF is_hu THEN JStr(<<"Ha", "véletlenszerû", "döntést", "szeretnél", "hozni.">>)
                ELSE JStr(<<"When", "you", "want", "to", "make", "a", "random", "decision.">>))>>),
          correct_index |-> JInt(0),
          explanation |-> (IF is_hu THEN JStr(<<"Mérhetõ", "cél", "és", "lépések", "¦", "ez", "a", "kulcs.">>)
            ELSE JStr(<<"Measurable", "goal", "and", "steps", "¦", "that", "is", "the", "key.">>))]),
      insight |-> (IF is_hu THEN JStr(<<"A(z)">> \o Hole(topic) \o <<"nem", "rakétatudomány:", "célt", "tûzöl", "ki,", "lépéseket", "teszel,", "és", "méred", "az", "eredményt.">>)
        ELSE JStr(Hole(topic) \o <<"is", "straightforward:", "set", "a", "goal,", "take", "steps,", "measure", "the", "result.">>))])

\* _create_fallback_item: content of a lesson in a language domain
FallbackLanguageLesson(topic, is_hu, minutes) ==
  JDict([
      content_type |-> JStr(<<"language_lesson">>),
      title |-> (IF is_hu THEN JStr(Hole(topic) \o <<"-", "alaplecke">>)
        ELSE JStr(Hole(topic) \o <<"-", "starter", "lesson">>)),
      introduction |-> (IF is_hu THEN JStr(<<"Ebben", "a", "rövid", "leckében", "a(z)">> \o Hole(topic) \o <<"témához", "kapcsolódó", "alap", "szókincset", "és", "mondatszerkezeteket", "tanulod.", "A", "cél,", "hogy", "egyszerû", "helyzetekben", "magabiztosan", "tudj", "köszönni,", "bemutatkozni,", "és", "röviden", "válaszolni.">>)
        ELSE JStr(<<"In", "this", "short", "lesson", "you", "learn", "the", "core", "vocabulary", "and", "sentence", "patterns", "for">> \o Hole(topic) \o <<GLUE, ".", "The", "goal", "is", "to", "greet", "people,", "introduce", "yourself,", "and", "answer", "simple", "questions", "with", "confidence.">>)),
      key_points |-> JList(<<
          (IF is_hu THEN JStr(<<"Köszönések", "és", "udvarias", "alapmondatok.">>)
            ELSE JStr(<<"Basic", "greetings", "and", "polite", "starter", "phrases.">>)),
          (IF is_hu THEN JStr(<<"Egyszerû", "bemutatkozás:", "név,", "származás,", "foglalkozás.">>)
            ELSE JStr(<<"Simple", "self-introduction:", "name,", "origin,", "role.">>)),
          (IF is_hu THEN JStr(<<"Rövid", "kérdés-válasz", "minták", "hétköznapi", "helyzetekre.">>)
            ELSE JStr(<<"Short", "question-answer", "patterns", "for", "daily", "situations.">>))>>),
      vocabulary_table |-> JList(<<
          JDict([
              word |-> JStr(<<"Hello">>),
              translation |-> JStr(<<"Helló">>)]),
          JDict([
              word |-> JStr(<<"Good", "morning">>),
              translation |-> JStr(<<"Jó", "reggelt">>)]),
          JDict([
              word |-> JStr(<<"Good", "afternoon">>),
              translation |-> JStr(<<"Jó", "napot">>)]),
          JDict([
              word |-> JStr(<<"My", "name", "is">>),
              translation |-> JStr(<<"A", "nevem">>)]),
          JDict([
              word |-> JStr(<<"Nice", "to", "meet", "you">>),
              translation |-> JStr(<<"Örülök,", "hogy", "megismertelek">>)]),
          JDict([
              word |-> JStr(<<"How", "are", "you?">>),
              translation |-> JStr(<<"Hogy", "vagy?">>)])>>),
      grammar_explanation |-> JDict([
          rule_title |-> JStr(<<"Egyszerû", "bemutatkozó", "mondat">>),
          formation_pattern |-> JStr(<<"My", "name", "is", "+", "név">>),
          explanation |-> (IF is_hu THEN JStr(<<"A", "minta", "segít", "udvariasan", "bemutatkozni", "elsõ", "találkozáskor.">>)
            ELSE JStr(<<"This", "pattern", "is", "used", "to", "introduce", "yourself", "politely", "in", "first", "meetings.">>)),
          examples |-> JList(<<
              JDict([
                  target |-> JStr(<<"My", "name", "is", "Anna.">>),
                  hungarian |-> JStr(<<"A", "nevem", "Anna.">>)]),
              JDict([
                  target |-> JStr(<<"My", "name", "is", "Peter.">>),
                  hungarian |-> JStr(<<"A", "nevem", "Péter.">>)])>>)]),
      dialogues |-> JList(<<
          JDict([
              scene |-> (IF is_hu THEN JStr(<<"Elsõ", "találkozás">>)
                ELSE JStr(<<"First", "meeting">>)),
              lines |-> JList(<<
                  JDict([
                      speaker |-> JStr(<<"A">>),
                      text |-> JStr(<<"Hello!">>),
                      translation |-> JStr(<<"Helló!">>)]),
                  JDict([
                      speaker |-> JStr(<<"B">>),
                      text |-> JStr(<<"Good", "afternoon!">>),
                      translation |-> JStr(<<"Jó", "napot!">>)]),
                  JDict([
                      speaker |-> JStr(<<"A">>),
                      text |-> JStr(<<"My", "name", "is", "Anna.">>),
                      translation |-> JStr(<<"A", "nevem", "Anna.">>)]),
                  JDict([
                      speaker |-> JStr(<<"B">>),
                      text |-> JStr(<<"Nice", "to", "meet", "you.">>),
                      translation |-> JStr(<<"Örülök,", "hogy", "megismertelek.">>)])>>)])>>),
      common_mistakes |-> JList(<<
          (IF is_hu THEN JStr(<<"A", "'My", "name", "is'", "után", "lemarad", "a", "név.">>)
            ELSE JStr(<<"Leaving", "out", "the", "name", "after", "'My", "name", "is'.">>)),
          (IF is_hu THEN JStr(<<"A", "köszönést", "napszakhoz", "rosszul", "választják.">>)
            ELSE JStr(<<"Using", "a", "greeting", "that", "does", "not", "match", "the", "time", "of", "day.">>)),
          (IF is_hu THEN JStr(<<"Túl", "hosszú,", "bonyolult", "mondatok", "kezdõ", "szinten.">>)
            ELSE JStr(<<"Using", "overly", "long,", "complex", "sentences", "at", "beginner", "level.">>))>>),
      estimated_minutes |-> JInt(Max(3, Min(10, minutes)))])

\* _create_fallback_item: content of a lesson in any other domain
FallbackContent(topic, is_hu, minutes) ==
  JDict([
      title |-> (IF is_hu THEN JStr(Hole(topic) \o <<"alapjai">>)
        ELSE JStr(Hole(topic) \o <<"essentials">>)),
      summary |-> (IF is_hu THEN JStr(<<"A(z)">> \o Hole(topic) \o <<"lényege,", "hogy", "érthetõen", "lásd", "a", "célt", "és", "a", "megvalósítás", "lépéseit.", "Ez", "a", "rövid", "áttekintés", "segít", "abban,", "hogy", "mikor", "és", "hogyan", "használd", "a", "fogalmat", "a", "gyakorlatban.">>)
        ELSE JStr(Hole(topic) \o <<"focuses", "on", "understanding", "the", "goal", "and", "the", "practical", "steps", "to", "apply", "it.", "This", "short", "overview", "helps", "you", "decide", "when", "to", "use", "it", "and", "what", "to", "watch", "for", "in", "practice.">>)),
      key_points |-> JList(<<
          (IF is_hu THEN JStr(<<"Definíció:", "mi", "a(z)">> \o Hole(topic) \o <<"és", "mire", "szolgál.">>)
            ELSE JStr(<<"Definition:", "what">> \o Hole(topic) \o <<"is", "and", "what", "it", "is", "for.">>)),
          (IF is_hu THEN JStr(<<"Mûködés:", "a", "folyamat", "fõ", "lépései", "röviden.">>)
            ELSE JStr(<<"How", "it", "works:", "the", "main", "steps", "in", "order.">>)),
          (IF is_hu THEN JStr(<<"Alkalmazás:", "egy", "tipikus", "helyzet,", "ahol", "hasznos.">>)
            ELSE JStr(<<"Use", "case:", "a", "typical", "scenario", "where", "it", "helps.">>)),
          (IF is_hu THEN JStr(<<"Korlátok:", "mikor", "nem", "ideális", "a", "használata.">>)
            ELSE JStr(<<"Limitations:", "when", "it", "is", "not", "ideal.">>)),
          (IF is_hu THEN JStr(<<"Kapcsolódás:", "hogyan", "illeszkedik", "a", "kapcsolódó", "fogalmakhoz.">>)
            ELSE JStr(<<"Connections:", "how", "it", "relates", "to", "nearby", "concepts.">>))>>),
      example |-> (IF is_hu THEN JStr(<<"Példa:", "Egy", "konkrét", "helyzetben", "a(z)">> \o Hole(topic) \o <<"segít", "a", "cél", "elérésében,", "mert", "lépésrõl", "lépésre", "követhetõ", "megoldást", "ad.">>)
        ELSE JStr(<<"Example:", "In", "a", "real", "situation,">> \o Hole(topic) \o <<"guides", "the", "process", "by", "making", "steps", "clear", "and", "measurable.">>)),
      micro_task |-> JDict([
          instruction |-> (IF is_hu THEN JStr(<<"Írj", "2¬3", "mondatban", "egy", "saját", "példát,", "ahol", "a(z)">> \o Hole(topic) \o <<"segítene.">>)
            ELSE JStr(<<"Write", "a", "2¬3", "sentence", "example", "where">> \o Hole(topic) \o <<"would", "help.">>)),
          expected_output |-> (IF is_hu THEN JStr(<<"2¬3", "mondat,", "konkrét", "helyzettel", "és", "céllal.">>)
            ELSE JStr(<<"2¬3", "sentences", "with", "a", "concrete", "situation", "and", "goal.">>))]),
      common_mistakes |-> JList(<<
          (IF is_hu THEN JStr(<<"Túl", "általános", "megfogalmazás", "konkrétumok", "nélkül.">>)
            ELSE JStr(<<"Using", "vague", "statements", "without", "concrete", "details.">>)),
          (IF is_hu THEN JStr(<<"A", "lépések", "összekeverése", "vagy", "kihagyása.">>)
            ELSE JStr(<<"Skipping", "or", "mixing", "up", "steps.">>)),
          (IF is_hu THEN JStr(<<"A", "cél", "és", "a", "mérhetõ", "eredmény", "nem", "tiszta.">>)
            ELSE JStr(<<"Unclear", "goal", "or", "success", "criteria.">>))>>),
      estimated_minutes |-> JInt(Max(3, Min(10, minutes)))])

\* _create_fallback_item: content of a quiz
FallbackQuiz(topic, is_hu, minutes) ==
  JDict([
      title |-> (IF is_hu THEN JStr(Hole(topic) \o <<"kvíz">>)
        ELSE JStr(Hole(topic) \o <<"quiz">>)),
      questions |-> JList(<<
          JDict([
              q |-> (IF is_hu THEN JStr(<<"Melyik", "állítás", "írja", "le", "legjobban", "a(z)">> \o Hole(topic) \o <<"lényegét?">>)
                ELSE JStr(<<"Which", "statement", "best", "describes">> \o Hole(topic) \o <<GLUE, "?">>)),
              options |-> JList(<<
                  (IF is_hu THEN JStr(<<"A(z)">> \o Hole(topic) \o <<"célja", "egy", "világos,", "mérhetõ", "eredmény", "elérése.">>)
                    ELSE JStr(Hole(topic) \o <<"aims", "for", "a", "clear,", "measurable", "outcome.">>)),
                  (IF is_hu THEN JStr(<<"A(z)">> \o Hole(topic) \o <<"csak", "általános", "inspiráció,", "lépések", "nélkül.">>)
                    ELSE JStr(Hole(topic) \o <<"is", "only", "general", "inspiration", "without", "steps.">>)),
                  (IF is_hu THEN JStr(<<"A(z)">> \o Hole(topic) \o <<"kizárólag", "hosszú", "távú", "elmélet,", "gyakorlati", "nélkül.">>)
                    ELSE JStr(Hole(topic) \o <<"is", "purely", "long-term", "theory", "with", "no", "practice.">>))>>),
              answer_index |-> JInt(0),
              explanation |-> (IF is_hu THEN JStr(<<"Az", "elsõ", "opció", "köti", "a", "célt", "és", "a", "megvalósítást.">>)
                ELSE JStr(<<"Option", "one", "links", "goal", "and", "execution.">>))]),
          JDict([
              q |-> (IF is_hu THEN JStr(<<"Mikor", "hasznos", "a(z)">> \o Hole(topic) \o <<GLUE, "?">>)
                ELSE JStr(<<"When", "is">> \o Hole(topic) \o <<"useful?">>)),
              options |-> JList(<<
                  (IF is_hu THEN JStr(<<"Ha", "konkrét", "célt", "és", "lépéseket", "kell", "meghatározni.">>)
                    ELSE JStr(<<"When", "you", "need", "a", "clear", "goal", "and", "steps.">>)),
                  (IF is_hu THEN JStr(<<"Ha", "nincs", "szükség", "mérhetõ", "eredményre.">>)
                    ELSE JStr(<<"When", "no", "measurable", "outcome", "is", "needed.">>)),
                  (IF is_hu THEN JStr(<<"Ha", "teljesen", "véletlenszerûen", "kell", "dönteni.">>)
                    ELSE JStr(<<"When", "decisions", "should", "be", "random.">>))>>),
              answer_index |-> JInt(0),
              explanation |-> (IF is_hu THEN JStr(<<"A", "konkrét", "cél", "és", "lépések", "a", "kulcs.">>)
                ELSE JStr(<<"Clear", "goals", "and", "steps", "are", "the", "key.">>))]),
          JDict([
              q |-> (IF is_hu THEN JStr(<<"Mi", "a", "leggyakoribb", "hiba", "a(z)">> \o Hole(topic) \o <<"alkalmazásakor?">>)
                ELSE JStr(<<"What", "is", "a", "common", "mistake", "when", "applying">> \o Hole(topic) \o <<GLUE, "?">>)),
              options |-> JList(<<
                  (IF is_hu THEN JStr(<<"A", "lépések", "kihagyása", "vagy", "összekeverése.">>)
                    ELSE JStr(<<"Skipping", "or", "mixing", "up", "steps.">>)),
                  (IF is_hu THEN JStr(<<"A", "cél", "egyértelmû", "megfogalmazása.">>)
                    ELSE JStr(<<"Clearly", "defining", "the", "goal.">>)),
                  (IF is_hu THEN JStr(<<"Az", "eredmény", "mérése.">>)
                    ELSE JStr(<<"Measuring", "the", "result.">>))>>),
              answer_index |-> JInt(0),
              explanation |-> (IF is_hu THEN JStr(<<"A", "folyamat", "lépéseinek", "elhagyása", "torzít.">>)
                ELSE JStr(<<"Skipping", "steps", "causes", "errors.">>))]),
          JDict([
              q |-> (IF is_hu THEN JStr(<<"Melyik", "kimenet", "jelzi,", "hogy", "a(z)">> \o Hole(topic) \o <<"jól", "mûködött?">>)
                ELSE JStr(<<"Which", "outcome", "shows", "that">> \o Hole(topic) \o <<"worked", "well?">>)),
              options |-> JList(<<
                  (IF is_hu THEN JStr(<<"Mérhetõen", "javult", "az", "eredmény.">>)
                    ELSE JStr(<<"The", "outcome", "measurably", "improved.">>)),
                  (IF is_hu THEN JStr(<<"Semmi", "nem", "változott.">>)
                    ELSE JStr(<<"Nothing", "changed.">>)),
                  (IF is_hu THEN JStr(<<"Nem", "tudjuk", "megmondani.">>)
                    ELSE JStr(<<"We", "cannot", "tell.">>))>>),
              answer_index |-> JInt(0),
              explanation |-> (IF is_hu THEN JStr(<<"A", "mérhetõ", "javulás", "jelzi", "a", "sikert.">>)
                ELSE JStr(<<"Measurable", "improvement", "indicates", "success.">>))])>>),
      estimated_minutes |-> JInt(Max(3, Min(8, minutes)))])

\* _create_fallback_item: content of a checklist
FallbackChecklist(topic, is_hu, minutes) ==
  JDict([
      title |-> (IF is_hu THEN JStr(Hole(topic) \o <<"ellenõrzõlista">>)
        ELSE JStr(Hole(topic) \o <<"checklist">>)),
      items |-> JList(<<
          JDict([
              text |-> (IF is_hu THEN JStr(<<"Fogalmazd", "meg", "a(z)">> \o Hole(topic) \o <<"pontos", "célját", "1", "mondatban.">>)
                ELSE JStr(<<"Define", "the", "exact", "goal", "for">> \o Hole(topic) \o <<"in", "one", "sentence.">>)),
              done |-> JBool(FALSE)]),
          JDict([
              text |-> (IF is_hu THEN JStr(<<"Sorolj", "fel", "3", "követelményt", "a(z)">> \o Hole(topic) \o <<"kapcsán.">>)
                ELSE JStr(<<"List", "3", "constraints", "for">> \o Hole(topic) \o <<GLUE, ".">>)),
              done |-> JBool(FALSE)]),
          JDict([
              text |-> (IF is_hu THEN JStr(<<"Állíts", "össze", "egy", "rövid", "(3", "lépés)", "tervet.">>)
                ELSE JStr(<<"Draft", "a", "short", "3-step", "plan.">>)),
              done |-> JBool(FALSE)]),
          JDict([
              text |-> (IF is_hu THEN JStr(<<"Készíts", "egy", "elsõ", "mérhetõ", "eredményt.">>)
                ELSE JStr(<<"Create", "a", "first", "measurable", "deliverable.">>)),
              done |-> JBool(FALSE)]),
          JDict([
              text |-> (IF is_hu THEN JStr(<<"Írd", "le", "a", "következõ", "lépést", "és", "a", "határidõt.">>)
                ELSE JStr(<<"Write", "the", "next", "step", "and", "a", "deadline.">>)),
              done |-> JBool(FALSE)])>>),
      estimated_minutes |-> JInt(Max(3, Min(10, minutes)))])

\* _create_fallback_item: content of an upload_review
FallbackUploadReview(topic, is_hu, minutes) ==
  JDict([
      title |-> (IF is_hu THEN JStr(Hole(topic) \o <<"feltöltés">>)
        ELSE JStr(Hole(topic) \o <<"upload">>)),
      prompt |-> (IF is_hu THEN JStr(<<"Tölts", "fel", "egy", "fájlt,", "ami", "bemutatja:">> \o Hole(topic) \o <<GLUE, ".">>)
        ELSE JStr(<<"Upload", "a", "file", "that", "demonstrates:">> \o Hole(topic) \o <<GLUE, ".">>)),
      rubric |-> JList(<<
          (IF is_hu THEN JStr(<<"A", "cél", "világosan", "látszik.">>)
            ELSE JStr(<<"The", "goal", "is", "clear.">>)),
          (IF is_hu THEN JStr(<<"A", "lényegi", "elemek", "benne", "vannak.">>)
            ELSE JStr(<<"Key", "elements", "are", "present.">>)),
          (IF is_hu THEN JStr(<<"A", "kimenet", "rendezett", "és", "olvasható.">>)
            ELSE JStr(<<"The", "output", "is", "organized", "and", "readable.">>)),
          (IF is_hu THEN JStr(<<"Azonosíthatók", "a", "hiányok.">>)
            ELSE JStr(<<"Gaps", "are", "identifiable.">>))>>),
      estimated_minutes |-> JInt(Max(3, Min(10, minutes)))])

\* _create_fallback_item: content of a briefing
FallbackBriefing(topic, is_hu, minutes) ==
  JDict([
      situation |-> (IF is_hu THEN JStr(<<"Ma", "a", "következõ", "munkahelyi", "szituációval", "foglalkozunk:">> \o Hole(topic) \o <<GLUE, ".">>)
        ELSE JStr(<<"Today", "we", "focus", "on", "this", "workplace", "scenario:">> \o Hole(topic) \o <<GLUE, ".">>)),
      outcome |-> (IF is_hu THEN JStr(<<"A", "nap", "végére", "képes", "leszel", "alkalmazni", "a", "tanultakat", "egy", "valós", "helyzetben.">>)
        ELSE JStr(<<"By", "the", "end", "you", "will", "apply", "what", "you", "learned", "in", "a", "real", "situation.">>)),
      key_vocabulary_preview |-> JList(<<>>)])

\* _create_fallback_item: content of a feedback
FallbackFeedback(topic, is_hu, minutes) ==
  JDict([
      placeholder |-> JBool(TRUE),
      user_text |-> JStr(<<>>),
      corrections |-> JList(<<>>),
      improved_version |-> JStr(<<>>),
      message |-> (IF is_hu THEN JStr(<<"Elõször", "fejezd", "be", "a", "szövegalkotás", "feladatot!">>)
        ELSE JStr(<<"Complete", "the", "writing", "task", "first!">>))])

\* _create_fallback_item: content of every other kind
FallbackOther(topic, is_hu, minutes) ==
  JDict([
      summary |-> JStr(topic)])

\* a read-only kind: no interaction is required and there is no input
ReadOnly(b) ==
  DSet2(DSet2(b, "validation", "require_interaction", JBool(FALSE)),
        "input", "type", JStr(<<"none">>))

\* _create_fallback_item: the kind-specific content put on the base dict
FallbackOfKind(kind, topic, is_hu, minutes, is_language, base) ==
  CASE kind = "smart_lesson" ->
         DSet2(DSet2(DSet(base, "content", FallbackSmartLesson(topic, is_hu, minutes)),
                     "validation", "require_interaction", JBool(TRUE)),
               "input", "type", JStr(<<"choice">>))
    [] kind = "content" ->
         ReadOnly(DSet(base, "content",
                       IF is_language THEN FallbackLanguageLesson(topic, is_hu, minutes)
                       ELSE FallbackContent(topic, is_hu, minutes)))
    [] kind = "quiz" -> DSet(base, "content", FallbackQuiz(topic, is_hu, minutes))
    [] kind = "checklist" -> DSet(base, "content", FallbackChecklist(topic, is_hu, minutes))
    [] kind = "upload_review" ->
         DSet2(DSet2(DSet(base, "content", FallbackUploadReview(topic, is_hu, minutes)),
                     "input", "type", JStr(<<"file">>)),
               "validation", "min_items", JInt(1))
    [] kind = "briefing" ->
         ReadOnly(DSet(base, "content", FallbackBriefing(topic, is_hu, minutes)))
    [] kind = "feedback" ->
         ReadOnly(DSet(base, "content", FallbackFeedback(topic, is_hu, minutes)))
    [] OTHER -> DSet(base, "content", FallbackOther(topic, is_hu, minutes))

\* _create_fallback_item, once is_hu and is_language are known
FallbackWith(kind, topic, label, is_hu, minutes, is_language, seed) ==
  FallbackOfKind(kind, topic, is_hu, minutes, is_language,
                 FallbackBase(kind, topic, label, is_hu, minutes, RulesOf(kind), seed))

\* _create_fallback_item
create_fallback_item(kind, topic, label, lang, minutes, domain, seed) ==
  FallbackWith(kind, topic, label, IsHu(lang), minutes,
               Lower(IF domain = <<>> THEN <<"other">> ELSE domain) \in LANGUAGE_DOMAINS, seed)

\* ------------------------------------------------------------------------
\* Python operations used by the validator; an operation on a value of the
\* wrong type raises (AttributeError / TypeError)
\* ------------------------------------------------------------------------
VOk == [r |-> "ok"]
VFail(m) == [r |-> "fail", msg |-> m]
VRaise(m) == [r |-> "raise", msg |-> m]

IsNum(x) == x.t \in {"int", "bool"}
NumVal(x) == IF x.t = "bool" THEN (IF x.v THEN 1 ELSE 0) ELSE x.v
Sized(x) == x.t \in {"str", "list", "dict"}

\* len(x), for a Sized x
PyLen(x) ==
  CASE x.t = "str" -> StrLen(x.v)
    [] x.t = "list" -> Len(x.v)
    [] x.t = "dict" -> Cardinality(DOMAIN x.v)

RECURSIVE SetToSeq(_)
SetToSeq(S) == IF S = {} THEN <<>> ELSE LET x == CHOOSE y \in S : TRUE
                                        IN <<x>> \o SetToSeq(S \ {x})

\* the elements a for-loop over x visits, for a Sized x: the items of a list,
\* the characters of a str, the keys of a dict
Elems(x) ==
  CASE x.t = "list" -> x.v
    [] x.t = "str" -> [i \in 1..StrLen(x.v) |-> JStr(<<"c">>)]
    [] x.t = "dict" -> LET ks == SetToSeq(DOMAIN x.v) IN [i \in 1..Len(ks) |-> JStr(<<ks[i]>>)]

RECURSIVE ReprOf(_)
RECURSIVE ReprJoin(_)
\* repr(x)
ReprOf(x) ==
  CASE x.t = "str" -> <<"'", GLUE>> \o Hole(x.v) \o <<GLUE, "'">>
    [] x.t = "list" -> <<"[", GLUE>> \o ReprJoin(x.v) \o <<GLUE, "]">>
    [] x.t = "dict" ->
         LET ks == SetToSeq(DOMAIN x.v)
         IN <<"{", GLUE>>
            \o ReprJoin([i \in 1..(2 * Len(ks)) |->
                          IF i % 2 = 1 THEN JStr(<<ks[(i + 1) \div 2]>>) ELSE x.v[ks[i \div 2]]])
            \o <<GLUE, "}">>
    [] OTHER -> PyRepr(x)
ReprJoin(l) ==
  IF l = <<>> THEN <<"">>
  ELSE IF Len(l) = 1 THEN ReprOf(l[1])
  ELSE ReprOf(l[1]) \o <<GLUE, ",">> \o ReprJoin(Tail(l))

\* str(x)
PyStr(x) == IF x.t = "str" THEN x.v ELSE ReprOf(x)

\* a check that returned early, or else the rest of the function
OrElse(r, rest) == IF r.r # "ok" THEN r ELSE rest

\* the result of the first check of a loop that does not pass
FirstBad(Check(_), seq) ==
  LET bad == {i \in 1..Len(seq) : Check(seq[i]).r # "ok"}
  IN IF bad = {} THEN VOk
     ELSE Check(seq[CHOOSE i \in bad : \A j \in bad : i <= j])

\* ------------------------------------------------------------------------
\* Item Validator
\* ------------------------------------------------------------------------
GENERIC_FILLER_PATTERNS_HU ==
  {<<"ez", "egy", "olvasando", "tartalom">>, <<"a", "temaban">>, <<"ismerkedjunk", "meg">>,
   <<"attekintjuk", "a", "temat">>, <<"roviden", "osszefoglalja">>,
   <<"altalanos", "attekintes">>, <<"alapokat", "ismerjuk", "meg">>}

GENERIC_FILLER_PATTERNS_EN ==
  {<<"this", "is", "a", "reading", "material">>, <<"about", "the", "topic">>,
   <<"let's", "get", "to", "know">>, <<"we", "will", "overview">>,
   <<"briefly", "summarizes">>, <<"general", "overview">>}

PLACEHOLDER_OPTIONS == {<<"a">>, <<"b">>, <<"c">>, <<"d">>, <<"1">>, <<"2">>, <<"3">>}

FORBIDDEN_PATTERNS ==
  {<<"hangosan">>, <<"mondd", "ki">>, <<"ismételd", "el">>, <<"mondd", "utánam">>,
   <<"hallgasd", "meg">>, <<"mondd", "fel">>, <<"mond", "ki">>, <<"olvasd", "fel">>,
   <<"speak", "aloud">>, <<"say", "out", "loud">>, <<"repeat", "after">>,
   <<"listen", "and", "repeat">>}

\* _contains_forbidden_pattern(text) is not None, or the AttributeError of text.lower()
contains_forbidden_pattern(x) ==
  IF ~Truthy(x) THEN VOk
  ELSE IF x.t # "str" THEN VRaise("AttributeError: lower")
  ELSE IF \E pat \in FORBIDDEN_PATTERNS : Contains(Lower(x.v), Lower(pat))
       THEN VFail("Contains forbidden pattern")
       ELSE VOk

\* _is_generic_summary(text, "hu")
is_generic_summary(text, lang) ==
  LET norm == normalize_for_match(text)
      patterns == IF IsHu(lang) THEN GENERIC_FILLER_PATTERNS_HU ELSE GENERIC_FILLER_PATTERNS_EN
  IN \E pat \in patterns : Contains(norm, pat)

\* _options_invalid(options): "ok" when it returns False, "fail" when True
options_invalid(options) ==
  IF ~Truthy(options) THEN VFail("invalid options")
  ELSE IF ~Sized(options) THEN VRaise("TypeError: len")
  ELSE IF PyLen(options) # 3 THEN VFail("invalid options")
  ELSE LET kept == SelectSeq(Elems(options), Truthy)
           normalized == [i \in 1..Len(kept) |-> normalize_for_match(kept[i].v)]
       IN IF \E i \in 1..Len(kept) : kept[i].t # "str" THEN VRaise("TypeError: normalize")
          ELSE IF \E i \in 1..Len(kept) : normalized[i] \in PLACEHOLDER_OPTIONS
               THEN VFail("invalid options")
          ELSE IF Cardinality({normalized[i] : i \in 1..Len(kept)}) # Len(kept)
               THEN VFail("invalid options")
          ELSE VOk

\* `ci is None or ci < 0 or ci >= n`
IndexInvalid(ci, n) ==
  IF ci.t = "null" THEN VFail("invalid correct_index")
  ELSE IF ~IsNum(ci) THEN VRaise("TypeError: <")
  ELSE IF NumVal(ci) < 0 \/ NumVal(ci) >= n THEN VFail("invalid correct_index")
  ELSE VOk

NoStr == JStr(<<>>)
NoList == JList(<<>>)

\* `not x or len(x) < n`, with the message of the failure
TooShort(x, n, msg) ==
  IF ~Truthy(x) THEN VFail(msg)
  ELSE IF ~Sized(x) THEN VRaise("TypeError: len")
  ELSE IF PyLen(x) < n THEN VFail(msg)
  ELSE VOk

\* `len(x) < lo or len(x) > hi`
LenOutside(x, lo, hi, msg) ==
  IF ~Sized(x) THEN VRaise("TypeError: len")
  ELSE IF PyLen(x) < lo \/ PyLen(x) > hi THEN VFail(msg)
  ELSE VOk

\* one question of the questions array
ValidateQuestion(q) ==
  IF q.t # "dict" THEN VRaise("AttributeError: get")
  ELSE LET opts == Get(q, "options", NoList)
           ci0 == Get(q, "correct_index", JNull)
           ci == IF ci0.t = "null" THEN Get(q, "answer_index", JNull) ELSE ci0
       IN OrElse(options_invalid(opts),
            OrElse(IndexInvalid(ci, PyLen(opts)),
              IF ~Truthy(Get(q, "q", JNull)) /\ ~Truthy(Get(q, "question", JNull))
              THEN VFail("Question missing question text")
              ELSE IF ~Truthy(Get(q, "explanation", JNull))
              THEN VFail("Question missing explanation")
              ELSE VOk))

\* kind == "quiz"
ValidateQuiz(content) ==
  LET questions == Get(content, "questions", NoList)
      choices == Get(content, "choices", NoList)
  IN IF Truthy(questions)
     THEN IF LenOutside(questions, 4, 6, "Quiz must have 4-6 questions").r # "ok"
          THEN LenOutside(questions, 4, 6, "Quiz must have 4-6 questions")
          ELSE FirstBad(ValidateQuestion, Elems(questions))
     ELSE IF ~Sized(choices) THEN VRaise("TypeError: len")
     ELSE IF PyLen(choices) < 3 THEN VFail("Quiz must have at least 3 choices")
     ELSE IndexInvalid(Get(content, "correct_index", JNull), PyLen(choices))

\* one block of lesson_flow
ValidateFlowItem(flow_item) ==
  IF flow_item.t # "dict" THEN VRaise("AttributeError: get")
  ELSE IF ~Truthy(Get(flow_item, "title_hu", JNull)) THEN VFail("lesson_flow missing title_hu")
  ELSE IF ~Truthy(Get(flow_item, "body_md", JNull)) THEN VFail("lesson_flow missing body_md")
  ELSE VOk

\* content_type == "language_nonlatin_beginner"
ValidateNonLatin(content) ==
  LET lesson_flow == Get(content, "lesson_flow", NoList)
  IN IF TooShort(lesson_flow, 1, "Non-Latin beginner lesson needs lesson_flow array").r # "ok"
     THEN TooShort(lesson_flow, 1, "Non-Latin beginner lesson needs lesson_flow array")
     ELSE IF PyLen(lesson_flow) > 7 THEN VFail("lesson_flow too long")
     ELSE FirstBad(ValidateFlowItem, Elems(lesson_flow))

\* one dialogue of a language lesson
ValidateDialogue(d) ==
  IF d.t # "dict" THEN VRaise("AttributeError: get")
  ELSE IF ~Sized(Get(d, "lines", NoList)) THEN VRaise("TypeError: len")
  ELSE IF PyLen(Get(d, "lines", NoList)) < 2 THEN VFail("Dialogue must have 2+ lines")
  ELSE VOk

\* content_type == "language_lesson"
ValidateLanguageLesson(content) ==
  LET introduction == Get(content, "introduction", NoStr)
      vocab_table == Get(content, "vocabulary_table", NoList)
      grammar == Get(content, "grammar_explanation", EmptyDict)
      dialogues == Get(content, "dialogues", NoList)
  IN IF ~Truthy(introduction) THEN VFail("Language lesson introduction too short")
     ELSE IF introduction.t # "str" THEN VRaise("AttributeError: split")
     ELSE IF WordCount(introduction.v) < 15 THEN VFail("Language lesson introduction too short")
     ELSE IF ~Sized(vocab_table) THEN VRaise("TypeError: len")
     ELSE IF PyLen(vocab_table) < 3 THEN VFail("Language lesson needs 3+ vocabulary items")
     ELSE IF ~Truthy(grammar) THEN VFail("Language lesson missing grammar_explanation")
     ELSE IF grammar.t # "dict" THEN VRaise("AttributeError: get")
     ELSE IF ~Truthy(Get(grammar, "explanation", JNull))
          THEN VFail("Language lesson missing grammar_explanation")
     ELSE IF ~Sized(Get(grammar, "examples", NoList)) THEN VRaise("TypeError: len")
     ELSE IF PyLen(Get(grammar, "examples", NoList)) < 1
          THEN VFail("Language lesson grammar needs 1+ example")
     ELSE IF ~Sized(dialogues) THEN VRaise("TypeError: len")
     ELSE IF PyLen(dialogues) < 1 THEN VFail("Language lesson needs at least 1 dialogue")
     ELSE FirstBad(ValidateDialogue, Elems(dialogues))

\* `len(str(kp)) < 10` for one key point
ValidateKeyPoint(kp) ==
  IF StrLen(PyStr(kp)) < 10 THEN VFail("Content key_points too short") ELSE VOk

\* standard content (non-language domains)
ValidateStandardContent(content) ==
  LET summary == Get(content, "summary", NoStr)
      key_points == Get(content, "key_points", NoList)
      example == Get(content, "example", NoStr)
      micro_task == Get(content, "micro_task", EmptyDict)
      common_mistakes == Get(content, "common_mistakes", NoList)
      keyPointsCheck ==
        IF ~Truthy(key_points) THEN VOk
        ELSE IF LenOutside(key_points, 3, 7, "Content must have 3-7 key_points").r # "ok"
             THEN LenOutside(key_points, 3, 7, "Content must have 3-7 key_points")
        ELSE FirstBad(ValidateKeyPoint, Elems(key_points))
  IN IF ~Truthy(summary) /\ ~Truthy(Get(content, "body_md", JNull))
     THEN VFail("Content must have summary or body_md")
     ELSE IF Truthy(summary) /\ summary.t # "str" THEN VRaise("TypeError: normalize")
     ELSE IF Truthy(summary) /\ is_generic_summary(summary.v, <<"hu">>)
          THEN VFail("Content summary too generic")
     ELSE IF keyPointsCheck.r # "ok" THEN keyPointsCheck
     ELSE IF Truthy(example) /\ StrLen(PyStr(example)) < 10 THEN VFail("Content example too short")
     ELSE IF Truthy(micro_task) /\ micro_task.t # "dict"
          THEN VFail("Content micro_task must be an object")
     ELSE IF Truthy(micro_task)
             /\ (~Truthy(Get(micro_task, "instruction", JNull))
                 \/ ~Truthy(Get(micro_task, "expected_output", JNull)))
          THEN VFail("Content micro_task missing fields")
     ELSE IF Truthy(common_mistakes)
          THEN LenOutside(common_mistakes, 3, 5, "Content common_mistakes must have 3-5 items")
     ELSE VOk

\* kind == "content"
ValidateContent(content) ==
  IF content.t # "dict" THEN VRaise("AttributeError: get")
  ELSE LET content_type == Get(content, "content_type", NoStr)
       IN IF content_type = JStr(<<"language_nonlatin_beginner">>) THEN ValidateNonLatin(content)
          ELSE IF content_type = JStr(<<"language_lesson">>) THEN ValidateLanguageLesson(content)
          ELSE ValidateStandardContent(content)

\* one entry of a checklist's items
ValidateChecklistItem(it) ==
  LET text == IF it.t = "dict" THEN Get(it, "text", JNull) ELSE it
  IN IF ~Truthy(text) \/ StrLen(PyStr(text)) < 8 THEN VFail("Checklist item too short") ELSE VOk

\* kind == "checklist"
ValidateChecklist(content) ==
  LET items == Get(content, "items", NoList)
      steps == Get(content, "steps", NoList)
  IN IF Truthy(items)
     THEN IF LenOutside(items, 5, 9, "Checklist must have 5-9 items").r # "ok"
          THEN LenOutside(items, 5, 9, "Checklist must have 5-9 items")
          ELSE FirstBad(ValidateChecklistItem, Elems(items))
     ELSE IF Truthy(steps)
     THEN IF ~Sized(steps) THEN VRaise("TypeError: len")
          ELSE IF PyLen(steps) < 3 THEN VFail("Checklist must have at least 3 steps")
          ELSE VOk
     ELSE VFail("Checklist missing items")

\* kind == "upload_review"
ValidateUploadReview(content) ==
  LET rubric == Get(content, "rubric", NoList)
  IN IF ~Truthy(Get(content, "prompt", NoStr)) THEN VFail("Upload review missing prompt")
     ELSE IF Truthy(rubric) /\ ~Sized(rubric) THEN VRaise("TypeError: len")
     ELSE IF Truthy(rubric) /\ PyLen(rubric) < 4 THEN VFail("Upload review rubric too short")
     ELSE VOk

\* kind == "cards"
ValidateCards(content) ==
  LET cards == Get(content, "cards", NoList)
  IN IF ~Sized(cards) THEN VRaise("TypeError: len")
     ELSE IF PyLen(cards) < 3 THEN VFail("Cards must have at least 3 cards")
     ELSE VOk

\* kind == "roleplay"
ValidateRoleplay(content) ==
  IF ~Truthy(Get(content, "opening_line", JNull)) THEN VFail("Roleplay must have opening_line")
  ELSE IF ~IsNum(Get(content, "turn_limit", JInt(0))) THEN VRaise("TypeError: <")
  ELSE VOk

\* kind == "translation"
ValidateTranslation(content) ==
  LET items == Get(content, "items", NoList)
  IN IF ~Sized(items) THEN VRaise("TypeError: len")
     ELSE IF PyLen(items) < 1 THEN VFail("Translation must have at least 1 item")
     ELSE VOk

\* kind == "briefing"
ValidateBriefing(content) ==
  IF TooShort(Get(content, "situation", NoStr), 20, "Briefing must have situation").r # "ok"
  THEN TooShort(Get(content, "situation", NoStr), 20, "Briefing must have situation")
  ELSE IF ~Truthy(Get(content, "outcome", NoStr)) THEN VFail("Briefing must have outcome")
  ELSE VOk

\* kind == "feedback"
ValidateFeedback(content) ==
  IF Truthy(Get(content, "placeholder", JBool(FALSE))) THEN VOk
  ELSE IF TooShort(Get(content, "corrections", NoList), 1, "Feedback must have at least 1 correction").r # "ok"
       THEN TooShort(Get(content, "corrections", NoList), 1, "Feedback must have at least 1 correction")
  ELSE IF ~Truthy(Get(content, "improved_version", NoStr))
       THEN VFail("Feedback must have improved_version")
  ELSE VOk

\* one micro task of a smart_lesson
ValidateMicroTask(task) ==
  IF task.t # "dict" THEN VFail("smart_lesson micro task must be an object")
  ELSE LET opts == Get(task, "options", NoList)
       IN IF ~Truthy(Get(task, "instruction", JNull)) THEN VFail("smart_lesson micro task missing instruction")
          ELSE IF ~Sized(opts) THEN VRaise("TypeError: len")
          ELSE IF PyLen(opts) # 3 THEN VFail("smart_lesson micro task must have exactly 3 options")
          ELSE IF IndexInvalid(Get(task, "correct_index", JNull), PyLen(opts)).r # "ok"
               THEN IndexInvalid(Get(task, "correct_index", JNull), PyLen(opts))
          ELSE IF ~Truthy(Get(task, "explanation", JNull))
               THEN VFail("smart_lesson micro task missing explanation")
          ELSE VOk

\* _is_generic_smart_lesson, one micro task: fewer than 2 options longer than 3 characters
GenericTask(task) ==
  IF task.t # "dict" THEN VFail("micro task must be an object")
  ELSE LET options == Get(task, "options", NoList)
           elems == IF Sized(options) THEN Elems(options) ELSE <<>>
           real_opts == {i \in 1..Len(elems) :
                           elems[i].t = "str" /\ StrLen(Strip(elems[i].v)) > 3}
       IN IF ~Sized(options) THEN VRaise("TypeError: iter")
          ELSE IF Cardinality(real_opts) < 2 THEN VFail("options must have at least 2 real options")
          ELSE VOk

\* _is_generic_smart_lesson(content): "fail" when it answers True
is_generic_smart_lesson(content) ==
  LET hook == Get(content, "hook", NoStr)
  IN IF ~Truthy(hook) THEN VFail("hook is empty or too short")
     ELSE IF hook.t # "str" THEN VRaise("AttributeError: strip")
     ELSE IF StrLen(Strip(hook.v)) < 10 THEN VFail("hook is empty or too short")
     ELSE FirstBad(GenericTask, <<Get(content, "micro_task_1", EmptyDict),
                                  Get(content, "micro_task_2", EmptyDict)>>)

\* kind == "smart_lesson"
ValidateSmartLesson(content) ==
  LET tasks == FirstBad(ValidateMicroTask, <<Get(content, "micro_task_1", EmptyDict),
                                             Get(content, "micro_task_2", EmptyDict)>>)
  IN IF TooShort(Get(content, "hook", NoStr), 10, "smart_lesson hook too short").r # "ok"
     THEN TooShort(Get(content, "hook", NoStr), 10, "smart_lesson hook too short")
     ELSE IF TooShort(Get(content, "insight", NoStr), 10, "smart_lesson insight too short").r # "ok"
     THEN TooShort(Get(content, "insight", NoStr), 10, "smart_lesson insight too short")
     ELSE IF tasks.r # "ok" THEN tasks
     ELSE is_generic_smart_lesson(content)

\* the forbidden-pattern scan of the non-content kinds
ForbiddenScan(item) ==
  LET content == Get(item, "content", EmptyDict)
      steps == Get(content, "steps", JNull)
      fields_to_check ==
        <<Get(item, "instructions_md", NoStr),
          Get(item, "title", NoStr),
          Get(item, "subtitle", NoStr),
          JStr(PyStr(Get(content, "prompt", NoStr))),
          JStr(PyStr(Get(content, "scene_title", NoStr))),
          JStr(PyStr(Get(content, "proof_required", NoStr)))>>
        \o (IF steps.t = "list" THEN steps.v ELSE <<>>)
  IN IF content.t # "dict" THEN VRaise("AttributeError: get")
     ELSE FirstBad(contains_forbidden_pattern, fields_to_check)

REQUIRED_FIELDS ==
  {"schema_version", "kind", "idempotency_key", "title", "instructions_md", "content", "validation"}

READ_ONLY_KINDS == {"content", "briefing", "feedback"}

\* the validation-block check
InteractionCheck(item, kind) ==
  LET validation == Get(item, "validation", EmptyDict)
  IN IF kind \in READ_ONLY_KINDS THEN VOk
     ELSE IF validation.t # "dict" THEN VRaise("AttributeError: get")
     ELSE IF ~Truthy(Get(validation, "require_interaction", JNull))
          THEN VFail("validation.require_interaction must be true")
     ELSE VOk

\* the kind-specific rules
KindCheck(kind, content) ==
  IF content.t # "dict" THEN VRaise("AttributeError: get")
  ELSE CASE kind = "quiz" -> ValidateQuiz(content)
         [] kind = "content" -> ValidateContent(content)
         [] kind = "checklist" -> ValidateChecklist(content)
         [] kind = "upload_review" -> ValidateUploadReview(content)
         [] kind = "cards" -> ValidateCards(content)
         [] kind = "roleplay" -> ValidateRoleplay(content)
         [] kind = "translation" -> ValidateTranslation(content)
         [] kind = "briefing" -> ValidateBriefing(content)
         [] kind = "feedback" -> ValidateFeedback(content)
         [] kind = "smart_lesson" -> ValidateSmartLesson(content)
         [] OTHER -> VOk

\* _validate_focus_item(item): "ok" is (True, ""), "fail" is (False, msg),
\* "raise" is an exception leaving the validator
validate_focus_item(item) ==
  LET kindv == Get(item, "kind", JNull)
      kind == IF kindv.t = "str" /\ Len(kindv.v) = 1 THEN kindv.v[1] ELSE "?"
  IN IF ~Truthy(kindv) \/ kind \notin VALID_KINDS THEN VFail("Invalid or missing kind")
     ELSE OrElse(IF kind # "content" THEN ForbiddenScan(item) ELSE VOk,
            IF \E f \in REQUIRED_FIELDS : ~Has(item, f) THEN VFail("Missing required field")
            ELSE OrElse(InteractionCheck(item, kind),
                        KindCheck(kind, Get(item, "content", EmptyDict))))

\* ------------------------------------------------------------------------
\* Generation Client: what the LLM call can return.  A response text is
\* [words, obj, truncated]: the prose of the text, the JSON object written in
\* it (JNull when there is none) and whether that object is cut off.
\* ------------------------------------------------------------------------
Response(words, obj, truncated) == [words |-> words, obj |-> obj, truncated |-> truncated]

S(w) == JStr(<<w>>)

GoodQuestion(n) ==
  JDict([q |-> JStr(<<"Mit", "jelent", "ez", "a", "szó", n, GLUE, "?">>),
         options |-> JList(<<JStr(<<"Alma">>), JStr(<<"Banán">>), JStr(<<"Körte">>)>>),
         correct_index |-> JInt(1),
         explanation |-> JStr(<<"A", "helyes", "válasz", "a", "második.">>)])

LongText == JStr(<<"Ez", "egy", "kellõen", "hosszú", "és", "konkrét", "mondat.">>)

GoodTask ==
  JDict([instruction |-> JStr(<<"Válaszd", "ki", "a", "helyes", "állítást.">>),
         options |-> JList(<<JStr(<<"Állampapír", "vásárlása">>), JStr(<<"Bankbetét", "lekötése">>),
                             JStr(<<"Készpénz", "otthon">>)>>),
         correct_index |-> JInt(0),
         explanation |-> LongText])

VocabEntry(w, tr) == JDict([word |-> JStr(<<w>>), translation |-> JStr(<<tr>>)])

\* a language lesson whose vocabulary_table holds the given entries
LanguageLessonContent(vocab) ==
  JDict([content_type |-> S("language_lesson"),
         introduction |-> JStr(<<"Ebben", "a", "leckében", "a", "köszönéseket", "tanulod", "meg,",
                                 "hogy", "az", "elsõ", "találkozáskor", "is", "magabiztosan",
                                 "tudj", "megszólalni", "és", "válaszolni.">>),
         vocabulary_table |-> JList(vocab),
         grammar_explanation |-> JDict([explanation |-> LongText,
                                        examples |-> JList(<<JDict([target |-> S("Annyeong")])>>)]),
         dialogues |-> JList(<<JDict([lines |-> JList(<<JDict([text |-> S("Annyeong")]),
                                                        JDict([text |-> S("Ne")])>>)])>>)])

\* a non-Latin beginner lesson whose first block shows the given glyphs
NonLatinContent(glyphs) ==
  JDict([content_type |-> S("language_nonlatin_beginner"),
         lesson_flow |-> JList(<<
           JDict([type |-> S("hook"), title_hu |-> JStr(<<"Az", "elsõ", "betûk">>),
                  body_md |-> LongText,
                  letters |-> JList([i \in 1..Len(glyphs) |-> JDict([glyph |-> JStr(<<glyphs[i]>>)])])]),
           JDict([type |-> S("meaning"), title_hu |-> JStr(<<"Jelentés">>), body_md |-> LongText])>>)])

\* a content payload of each kind that the validator accepts
GoodContent(kind) ==
  CASE kind = "quiz" ->
         JDict([questions |-> JList(<<GoodQuestion("1"), GoodQuestion("2"),
                                      GoodQuestion("3"), GoodQuestion("4")>>)])
    [] kind = "content" ->
         JDict([summary |-> LongText,
                key_points |-> JList(<<LongText, LongText, LongText>>),
                example |-> LongText,
                micro_task |-> JDict([instruction |-> LongText, expected_output |-> LongText]),
                common_mistakes |-> JList(<<LongText, LongText, LongText>>)])
    [] kind = "checklist" ->
         JDict([steps |-> JList(<<LongText, LongText, LongText>>),
                proof_required |-> JStr(<<"Írd", "le", "az", "eredményt.">>)])
    [] kind = "upload_review" ->
         JDict([prompt |-> LongText, rubric |-> JList(<<LongText, LongText, LongText, LongText>>)])
    [] kind = "translation" ->
         JDict([items |-> JList(<<JDict([source |-> JStr(<<"Jó", "reggelt">>),
                                         target_lang |-> S("en")])>>)])
    [] kind = "cards" ->
         JDict([cards |-> JList(<<JDict([front |-> S("Hello"), back |-> S("Helló")]),
                                  JDict([front |-> S("Dog"), back |-> S("Kutya")]),
                                  JDict([front |-> S("Cat"), back |-> S("Macska")])>>)])
    [] kind = "roleplay" ->
         JDict([scene_title |-> JStr(<<"A", "kávézóban">>),
                opening_line |-> JStr(<<"Hello,", "what", "would", "you", "like?">>),
                turn_limit |-> JInt(8)])
    [] kind = "writing" ->
         JDict([prompt |-> LongText, min_chars |-> JInt(120)])
    [] kind = "briefing" ->
         JDict([situation |-> LongText, outcome |-> LongText])
    [] kind = "feedback" ->
         JDict([corrections |-> JList(<<JDict([original |-> JStr(<<"I", "goed">>), corrected |-> JStr(<<"I", "went">>)])>>),
                improved_version |-> LongText])
    [] kind = "smart_lesson" ->
         JDict([hook |-> LongText, insight |-> LongText,
                micro_task_1 |-> GoodTask, micro_task_2 |-> GoodTask])

\* an item as the LLM writes it: its own kind field, the given payload and,
\* when validation is not JNull, its own validation block
LLMCore(kindField, content) ==
  [schema_version |-> S("1.0"),
   kind |-> kindField,
   idempotency_key |-> S("llm-0001"),
   title |-> JStr(<<"Gyakorlat">>),
   subtitle |-> JStr(<<"Rövid", "feladat">>),
   estimated_minutes |-> JInt(5),
   instructions_md |-> JStr(<<"Oldd", "meg", "a", "feladatot", "írásban.">>),
   input |-> JDict([type |-> S("text"), placeholder |-> JNull]),
   content |-> content]

WithValidation(core, validation) ==
  IF validation = JNull THEN JDict(core) ELSE JDict(("validation" :> validation) @@ core)

LLMItem(kindField, content, validation) ==
  WithValidation(LLMCore(kindField, content), validation)

\* d without the key k
DDel(d, k) == JDict([x \in (DOMAIN d.v) \ {k} |-> d.v[x]])

\* ------------------------------------------------------------------------
\* Retry/Fallback Controller: the steps of generate_focus_item after the
\* LLM call has returned
\* ------------------------------------------------------------------------
RECURSIVE AllStrings(_)
\* every str inside a JSON value
AllStrings(x) ==
  CASE x.t = "str" -> {x.v}
    [] x.t = "list" -> UNION {AllStrings(x.v[i]) : i \in 1..Len(x.v)}
    [] x.t = "dict" -> UNION {AllStrings(x.v[k]) : k \in DOMAIN x.v}
    [] OTHER -> {}

\* the strings a substring test on the raw text can hit
TextStrings(text) == {text.words} \cup AllStrings(text.obj)

\* word in text.strip().lower()
TextMentions(text, pat) == \E str \in TextStrings(text) : Contains(Lower(Strip(str)), pat)

\* generate_focus_item._is_llm_error
is_llm_error(text) ==
  \/ (text.words = <<>> /\ text.obj = JNull)
  \/ StartsWithWord(text.words, "Error:")
  \/ TextMentions(text, <<"overloaded">>)
  \/ TextMentions(text, <<"not", "available">>)
  \/ TextMentions(text, <<"invalid", "model">>)

\* _extract_json_object(_strip_json_fences(text)): the first complete object or None
extract_json_object(text) ==
  IF text.obj = JNull \/ text.truncated THEN JNull ELSE text.obj

\* `data["validation"]["require_interaction"] = ...` on a validation that is
\* not a dict raises TypeError
NormalizeRaises(data) == Has(data, "validation") /\ data.v["validation"].t # "dict"

\* data["kind"] left as the LLM wrote it when it wrote one
ForceKindTrusting(data, kind) ==
  IF Has(data, "kind") THEN data ELSE DSet(data, "kind", JStr(<<kind>>))

\* data["kind"] = kind
ForceKind(data, kind) == DSet(data, "kind", JStr(<<kind>>))

\* require_interaction filled in only where the LLM left it out
ForceInteractionDefault(data, kind, preceding_lesson_content) ==
  LET d == IF Has(data, "validation") THEN data ELSE DSet(data, "validation", EmptyDict)
      keep == Has(d.v["validation"], "require_interaction")
  IN IF kind \in READ_ONLY_KINDS
     THEN DSet(IF keep THEN d ELSE DSet2(d, "validation", "require_interaction", JBool(FALSE)),
               "input", JDict([type |-> JStr(<<"none">>), placeholder |-> JNull]))
     ELSE LET e == IF keep THEN d ELSE DSet2(d, "validation", "require_interaction", JBool(TRUE))
          IN IF Truthy(preceding_lesson_content)
             THEN DSet(e, "chain_version", JStr(<<"lesson_v2">>)) ELSE e

\* data.setdefault("validation", {}) and the writes to
\* validation.require_interaction, input and chain_version
ForceInteraction(data, kind, preceding_lesson_content) ==
  LET d == IF Has(data, "validation") THEN data ELSE DSet(data, "validation", EmptyDict)
  IN IF kind \in READ_ONLY_KINDS
     THEN DSet(DSet2(d, "validation", "require_interaction", JBool(FALSE)),
               "input", JDict([type |-> JStr(<<"none">>), placeholder |-> JNull]))
     ELSE LET e == DSet2(d, "validation", "require_interaction", JBool(TRUE))
          IN IF Truthy(preceding_lesson_content)
             THEN DSet(e, "chain_version", JStr(<<"lesson_v2">>)) ELSE e

\* "Force correct kind (LLM might have changed it)"
Normalize(data, kind, preceding_lesson_content) ==
  ForceInteraction(ForceKind(data, kind), kind, preceding_lesson_content)

NON_LATIN_LANGUAGES ==
  {"greek", "korean", "japanese", "chinese", "mandarin", "arabic", "hebrew", "hindi",
   "thai", "russian", "ukrainian", "georgian", "armenian", "bengali", "tamil"}

\* _is_nonlatin_language
is_nonlatin_language(lang) == Len(lang) = 1 /\ Lower(lang)[1] \in NON_LATIN_LANGUAGES

HU_LANG_NAME_MAP ==
  ("koreai" :> "korean") @@ ("japán" :> "japanese") @@ ("görög" :> "greek")
  @@ ("kínai" :> "chinese") @@ ("arab" :> "arabic") @@ ("héber" :> "hebrew")
  @@ ("hindi" :> "hindi") @@ ("thai" :> "thai") @@ ("orosz" :> "russian")
  @@ ("ukrán" :> "ukrainian") @@ ("grúz" :> "georgian") @@ ("örmény" :> "armenian")
  @@ ("bengáli" :> "bengali") @@ ("tamil" :> "tamil") @@ ("mandarin" :> "mandarin")
  @@ ("angol" :> "english") @@ ("német" :> "german") @@ ("francia" :> "french")
  @@ ("olasz" :> "italian") @@ ("spanyol" :> "spanish") @@ ("portugál" :> "portuguese")
  @@ ("holland" :> "dutch") @@ ("svéd" :> "swedish") @@ ("finn" :> "finnish")
  @@ ("lengyel" :> "polish") @@ ("cseh" :> "czech") @@ ("román" :> "romanian")
  @@ ("török" :> "turkish") @@ ("norvég" :> "norwegian") @@ ("dán" :> "danish")

\* the part of source before its first " - ", stripped and lowered
TitlePrefixAt(source, dashes) ==
  IF dashes = {} THEN <<>>
  ELSE Lower(Strip(SubSeq(source, 1, (CHOOSE i \in dashes : \A j \in dashes : i <= j) - 1)))

\* source.split(" - ")[0].strip().lower() if " - " in source else ""
TitlePrefix(source) ==
  TitlePrefixAt(source, {i \in 2..(Len(source) - 1) : source[i] = "-"})

\* _HU_LANG_NAME_MAP.get(prefix, "")
InferFrom(prefix) ==
  IF Len(prefix) = 1 /\ prefix[1] \in DOMAIN HU_LANG_NAME_MAP
  THEN <<HU_LANG_NAME_MAP[prefix[1]]>> ELSE <<>>

\* the first of three strs that is not empty
FirstNonEmpty(a, b, c) == IF a # <<>> THEN a ELSE IF b # <<>> THEN b ELSE c

\* (settings.get("target_language") or "").strip().lower()
TargetOf(raw) == IF Truthy(raw) THEN Lower(Strip(raw.v)) ELSE <<>>

\* _resolve_target_language(settings or {}, day_title, user_goal)
resolve_target_language(settings, day_title, user_goal) ==
  FirstNonEmpty(TargetOf(IF settings.t = "dict" THEN Get(settings, "target_language", JNull)
                         ELSE JNull),
                InferFrom(TitlePrefix(day_title)), InferFrom(TitlePrefix(user_goal)))

\* sum(1 for e in entries if e.get(key, "").isascii()) > len(entries) * 0.5;
\* "raise" when an entry is not a dict or its value is not a str
AsciiMajority(entries, key) ==
  LET n == Len(entries)
      bad(i) == \/ entries[i].t # "dict"
                \/ Get(entries[i], key, JStr(<<>>)).t # "str"
      ascii == {i \in 1..n : IsAscii(Get(entries[i], key, JStr(<<>>)).v)}
  IN IF \E i \in 1..n : bad(i) THEN "raise"
     ELSE IF 2 * Cardinality(ascii) > n THEN "mismatch" ELSE "ok"

\* the first check that is not "ok" decides
FirstNotOk(r, rest) == IF r # "ok" THEN r ELSE rest

\* if x and isinstance(x, list): the ASCII majority test on its entries
ListMajority(x, key) ==
  IF Truthy(x) /\ x.t = "list" THEN AsciiMajority(x.v, key) ELSE "ok"

RECURSIVE FlowCheck(_, _)
\* the loop over lesson_flow from block i on: the first block that raises or
\* shows an ASCII majority decides
FlowCheck(flow, i) ==
  IF i > Len(flow) THEN "ok"
  ELSE IF flow[i].t # "dict" THEN "raise"
  ELSE FirstNotOk(ListMajority(Get(flow[i], "letters", JList(<<>>)), "glyph"),
                  FlowCheck(flow, i + 1))

\* if flow and isinstance(flow, list): the loop over its blocks
FlowMajority(flow) == IF Truthy(flow) /\ flow.t = "list" THEN FlowCheck(flow.v, 1) ELSE "ok"

\* the vocabulary table, then the lesson flow, of the payload
ContentScript(content_data) ==
  IF content_data.t # "dict" THEN "raise"
  ELSE FirstNotOk(ListMajority(Get(content_data, "vocabulary_table", JList(<<>>)), "word"),
                  FlowMajority(Get(content_data, "lesson_flow", JList(<<>>))))

\* target_lang and _is_nonlatin_language(target_lang) and kind == "content"
\* and retry_count < min(1, max_retries)
ScriptGuard(target, kind, retry_count, max_retries) ==
  /\ target # <<>>
  /\ is_nonlatin_language(target)
  /\ kind = "content"
  /\ retry_count < Min(1, max_retries)

\* the non-Latin script validation of an item that passed the validator:
\* "skip" when its guard is false, else "ok", "mismatch" or "raise"
ScriptCheck(data, kind, retry_count, max_retries, settings, day_title, user_goal) ==
  IF ~ScriptGuard(resolve_target_language(settings, day_title, user_goal), kind,
                  retry_count, max_retries)
  THEN "skip"
  ELSE ContentScript(Get(data, "content", EmptyDict))

\* retry_count < max_retries, with the bound off by one
MayRetryInclusive(retry_count, max_retries) == retry_count <= max_retries

\* retry_count < max_retries
MayRetry(retry_count, max_retries) == retry_count < max_retries

\* fallback["chain_version"] = "lesson_v2" on a chained practice item
ChainVersion(fallback, chained) ==
  IF chained THEN DSet(fallback, "chain_version", JStr(<<"lesson_v2">>)) ELSE fallback

\* fallback = _create_fallback_item(...); chain_version added to a chained
\* practice item
Fallback(kind, topic, label, lang, minutes, domain, preceding_lesson_content, seed) ==
  ChainVersion(create_fallback_item(kind, topic, label, lang, minutes, domain, seed),
               Truthy(preceding_lesson_content) /\ kind # "content")

\* if not is_valid: ...
AfterValidate(data, verdict) ==
  IF verdict.r = "raise" THEN [o |-> "validate_raise", data |-> data]
  ELSE IF verdict.r # "ok" THEN [o |-> "invalid", data |-> data]
  ELSE [o |-> "valid", data |-> data]

\* is_valid, error = _validate_focus_item(data)
AfterNormalize(data) == AfterValidate(data, validate_focus_item(data))

\* if not data: ...; then the forced fields
AfterParse(parsed, kind, preceding_lesson_content) ==
  IF ~Truthy(parsed) THEN [o |-> "parse_fail", data |-> JNull]
  ELSE IF NormalizeRaises(parsed) THEN [o |-> "normalize_raise", data |-> JNull]
  ELSE AfterNormalize(Normalize(parsed, kind, preceding_lesson_content))

\* one attempt from the text the LLM call returned to the validator's verdict
Attempt(text, kind, preceding_lesson_content) ==
  IF is_llm_error(text) THEN [o |-> "llm_error", data |-> JNull]
  ELSE AfterParse(extract_json_object(text), kind, preceding_lesson_content)

\* the non-Latin script validation of an accepted item
AfterScriptCheck(data, sc) ==
  IF sc = "raise" THEN [o |-> "script_raise", data |-> data]
  ELSE IF sc = "mismatch" THEN [o |-> "script_mismatch", data |-> data]
  ELSE [o |-> "accept", data |-> data]

AfterAttempt(a, kind, retry_count, max_retries, settings, day_title, user_goal) ==
  IF a.o # "valid" THEN a
  ELSE AfterScriptCheck(a.data, ScriptCheck(a.data, kind, retry_count, max_retries,
                                            settings, day_title, user_goal))

\* what one attempt does with the text the LLM call returned, up to the
\* point where it retries, returns or raises
Outcome(text, kind, retry_count, max_retries, preceding, settings, day_title, user_goal) ==
  AfterAttempt(Attempt(text, kind, preceding), kind, retry_count, max_retries, settings,
               day_title, user_goal)

\* the texts one LLM call can return for an item of the given kind
ResponsesAround(kind, content, good, lead) ==
  {
    \* return "" (no content block)
    Response(<<>>, JNull, FALSE),
    \* return f"Error: {str(e)}"
    Response(<<"Error:", "rate", "limited">>, JNull, FALSE),
    \* return "Claude API not available"
    Response(<<"Claude", "API", "not", "available">>, JNull, FALSE),
    \* prose that names the overload
    Response(<<"The", "model", "is", "overloaded">>, JNull, FALSE),
    \* prose with no object in it
    Response(<<"Sorry,", "I", "cannot", "help", "with", "that.">>, JNull, FALSE),
    \* an object cut off by max_tokens
    Response(lead, good, TRUE),
    \* the empty object
    Response(<<>>, EmptyDict, FALSE),
    \* a well-formed item
    Response(<<>>, good, FALSE),
    \* a well-formed item after a line of prose, with another kind and the opposite
    \* require_interaction
    Response(lead, LLMItem(S(IF kind = "quiz" THEN "content" ELSE "quiz"), content,
                            JDict([require_interaction |-> JBool(kind \in READ_ONLY_KINDS)])),
             FALSE),
    \* a well-formed item of another kind
    Response(<<>>, LLMItem(S(IF kind = "quiz" THEN "checklist" ELSE "quiz"),
                           GoodContent(IF kind = "quiz" THEN "checklist" ELSE "quiz"), JNull),
             FALSE),
    \* a well-formed item with no kind field
    Response(<<>>, DDel(good, "kind"), FALSE),
    \* an item without its title
    Response(<<>>, DDel(good, "title"), FALSE),
    \* an item whose instructions ask to speak aloud
    Response(<<>>, DSet(good, "instructions_md", JStr(<<"Mondd", "ki", "hangosan", "a", "választ.">>)),
             FALSE),
    \* an item with nothing in its payload
    Response(<<>>, LLMItem(S(kind), EmptyDict, JNull), FALSE),
    \* an item whose validation is a string
    Response(<<>>, LLMItem(S(kind), content, S("none")), FALSE),
    \* an item whose payload is a string
    Response(<<>>, LLMItem(S(kind), LongText, JNull), FALSE)
  }

CommonResponses(kind) ==
  ResponsesAround(kind, GoodContent(kind), LLMItem(S(kind), GoodContent(kind), JNull),
                  <<"Here", "is", "the", "item:">>)

NativeVocab == <<VocabEntry("¤¤", "szia"), VocabEntry("¤¤¤", "köszönöm"), VocabEntry("¤", "igen")>>
AsciiVocab == <<VocabEntry("annyeong", "szia"), VocabEntry("gamsa", "köszönöm"), VocabEntry("¤", "igen")>>

\* the language lessons a content call can also get back
LessonResponses ==
  {Response(<<>>, LLMItem(S("content"), c, JNull), FALSE) :
     c \in {LanguageLessonContent(NativeVocab),
            LanguageLessonContent(AsciiVocab),
            LanguageLessonContent(<<S("annyeong"), S("gamsa"), S("ne")>>),
            NonLatinContent(<<"¤", "¤¤">>),
            NonLatinContent(<<"a", "b", "¤">>)}}

Responses(kind) == CommonResponses(kind) \cup (IF kind = "content" THEN LessonResponses ELSE {})

NoResponse == Response(<<"(none)">>, JNull, FALSE)

\* ------------------------------------------------------------------------
\* State
\* ------------------------------------------------------------------------
VARIABLES
  pc,           \* "idle" | "awaiting" (the LLM call is in flight) | "received" |
                \* "returned" | "raised"
  call,         \* the arguments of the caller's generate_focus_item(...)
  cur,          \* item_type, practice_type, domain, lang as rebound in the current frame
  kind,         \* the kind resolved in the current frame
  prompt,       \* the request sent to the LLM in the current frame
  retry_count,  \* retry_count of the current frame
  attempts,     \* LLM calls made for the caller's call so far
  text,         \* the text the LLM call of the current frame returned
  outcome,      \* the branch the current frame takes on that text
  result,       \* the item returned to the caller
  error,        \* the exception raised to the caller
  seed,         \* the process's string-hash salt
  calls,        \* calls the caller has made
  prev,         \* what the caller's previous call returned
  script_retries, \* SCRIPT MISMATCH lines logged for the caller's call so far
  candidate,    \* the item handed to _validate_focus_item
  verdict,      \* what _validate_focus_item did with it
  chain_pc,     \* generate_item_content: "idle" | "lesson" (the nested lesson generation
                \* is in flight) | "item" (the item generation is in flight) | "responded"
  rows,         \* the focus_items rows of the day, in the order of order_index
  current,      \* the position of the requested item among them
  language_domain, \* is_language_domain of the plan
  scan,         \* the position of the row di the backward scan stands at
  chain,        \* preceding_lesson_content: the row it was extracted from and its parts
  response,     \* "none" | "ok" | "error" (HTTP 500)
  chain_log,    \* the failures logged by the handler
  outline_pc,   \* generate_focus_outline: "idle" | "awaiting" (the LLM call is in flight) |
                \* "returned"
  outline_req,  \* its arguments user_goal, lang and duration_days
  outline,      \* the outline it returned
  outline_log,  \* the lines it printed
  norm_pc,      \* _normalize_focus_day_items: "idle" | "once" | "twice" | "raised"
  norm_req,     \* its arguments data, day_index, is_hu and domain
  norm_day,     \* the day it returned
  norm_prev,    \* the day the call before returned
  tasks_pc,     \* fetch_day_tasks: "idle" | "gathering" | "returned" | "refused"
  tasks_req,    \* the DayTasksReq and LLM_AVAILABLE
  gen_pc,       \* per gen_task: "new" | "awaiting" (generate_focus_item is in flight) | "done"
  gen_llm,      \* per gen_task: what its generate_focus_item call returned or raised
  gen_order,    \* the gen_tasks in the order in which they finished
  tasks_resp,   \* the response of fetch_day_tasks
  item_row,     \* one focus_items row: its type, its kind, its plan's domain, its content
  req_pc,       \* per generate_item_content request for that row: "new" | "generating" | "done"
  req_seen,     \* per request: the content of the row as the request read it
  req_chained,  \* per request: lesson context was found for the generation
  req_resp,     \* per request: its response
  req_llm,      \* per request: generate_focus_item calls made for the item
  req_wrote,    \* per request: it updated the row's content
  last_writer,  \* the request whose update of the row was the last, 0 for none
  overlap,      \* two requests were generating at the same time
  clock,        \* the local (Budapest) calendar date, and whether UTC is still on the date before
  plan_days,    \* per plan, the focus_days rows in the order of day_index
  stats_rows,   \* the user_focus_stats rows of the user
  last_call,    \* the last start-day or complete-day call and its answer
  day_reqs      \* the complete-day requests waiting for get_user_id to return

\* the variables of generate_focus_item
ctlVars == <<pc, call, cur, kind, prompt, retry_count, attempts, text, outcome, result, error, seed, calls, prev, script_retries>>

\* the variables of the systems around it
valVars == <<candidate, verdict>>
chainVars == <<chain_pc, rows, current, language_domain, scan, chain, response, chain_log>>
outlineVars == <<outline_pc, outline_req, outline, outline_log>>
normVars == <<norm_pc, norm_req, norm_day, norm_prev>>
tasksVars == <<tasks_pc, tasks_req, gen_pc, gen_llm, gen_order, tasks_resp>>
itemVars == <<item_row, req_pc, req_seen, req_chained, req_resp, req_llm, req_wrote, last_writer, overlap>>
planVars == <<clock, plan_days, stats_rows, last_call, day_reqs>>
restVars == <<normVars, tasksVars, itemVars, planVars>>
otherVars == <<valVars, chainVars, outlineVars, restVars>>

vars == <<ctlVars, otherVars>>

MaxRetries == 2
MaxCalls == 2
Seeds == {0, 1}

NoOutcome == [o |-> "none", data |-> JNull]
NoVerdict == [r |-> "none", msg |-> <<>>]

NoFrame == [item_type |-> <<>>, practice_type |-> JNull, domain |-> <<>>, lang |-> <<>>]
NoPrompt == [retry |-> FALSE, chained |-> FALSE, max_tokens |-> 0]

\* the arguments of a frame after the coercions and the domain guard
FrameOf(g, domain, lang) ==
  [item_type |-> g.item_type, practice_type |-> g.practice_type, domain |-> domain,
   lang |-> lang]

\* the coercions and the domain guard
Frame(item_type, practice_type, domain, lang) ==
  FrameOf(Guarded(item_type, practice_type, domain), CoerceStr(domain, <<"other">>),
          CoerceStr(lang, <<"hu">>))

\* the RETRY directive, the chaining block and the token budget of the request
BuildPrompt(k, domain, rc, preceding_lesson_content) ==
  [retry |-> rc > 0,
   chained |-> Truthy(preceding_lesson_content) /\ k # "content",
   max_tokens |-> CASE k = "content" -> IF is_language_domain(domain) THEN 3500 ELSE 2500
                    [] k = "feedback" -> 2000
                    [] OTHER -> 1500]

\* the frame f with kind k awaits the LLM call, the n-th of the caller's call
Await(f, k, rc, n) ==
  /\ pc' = "awaiting"
  /\ cur' = f
  /\ kind' = k
  /\ prompt' = BuildPrompt(k, f.domain, rc, call.preceding_lesson_content)
  /\ retry_count' = rc
  /\ attempts' = n
  /\ text' = NoResponse
  /\ outcome' = NoOutcome

\* generate_focus_item from its entry to the await of the LLM call
EnterAttempt(item_type, practice_type, domain, lang, rc, n) ==
  Await(Frame(item_type, practice_type, domain, lang),
        ResolveKind(item_type, practice_type, domain), rc, n)

\* return await generate_focus_item(..., retry_count=retry_count + 1, ...)
Recurse ==
  EnterAttempt(JStr(cur.item_type), cur.practice_type, JStr(cur.domain), JStr(cur.lang),
               retry_count + 1, attempts + 1)

\* the outcome of the current frame for the text the LLM call returned
OutcomeOf(t) ==
  Outcome(t, kind, retry_count, call.max_retries, call.preceding_lesson_content,
          call.settings, call.day_title, call.user_goal)

FallbackOf ==
  Fallback(kind, call.topic, call.label, cur.lang, call.minutes, cur.domain,
           call.preceding_lesson_content, seed)

\* ------------------------------------------------------------------------
\* The calls a caller makes
\* ------------------------------------------------------------------------
MkCall(k, p, n) ==
  [item_type |-> k.item_type, practice_type |-> k.practice_type, domain |-> k.domain,
   topic |-> p.topic, label |-> p.label, lang |-> p.lang, minutes |-> p.minutes,
   day_title |-> p.day_title, user_goal |-> p.user_goal, settings |-> p.settings,
   preceding_lesson_content |-> p.preceding_lesson_content, max_retries |-> n]

KindArgs(item_type, practice_type, domain) ==
  [item_type |-> item_type, practice_type |-> practice_type, domain |-> domain]

\* plan items as the day generator and the database rows hand them over
PlanItems ==
  {KindArgs(S("lesson"), JNull, S("language_learning")),
   KindArgs(S("lesson"), JNull, S("other")),
   KindArgs(S("quiz"), JNull, S("other")),
   KindArgs(S("flashcard"), JNull, S("language")),
   KindArgs(S("flashcard"), JNull, S("fitness")),
   KindArgs(S("task"), JNull, S("other")),
   KindArgs(S("briefing"), JNull, S("other")),
   KindArgs(S("feedback"), JNull, S("language_learning")),
   KindArgs(S("smart_lesson"), JNull, S("smart_learning")),
   KindArgs(S("practice"), S("translation"), S("language_learning")),
   KindArgs(S("practice"), JStr(<<WS, "translation", WS>>), S("fitness")),
   KindArgs(S("practice"), S("dialogue"), S("language")),
   KindArgs(S("practice"), S("writing"), S("other")),
   KindArgs(S("practice"), S("Speaking"), S("fitness")),
   KindArgs(JNull, JInt(1), JNull)}

Profile(topic, label, lang, day_title, settings, preceding_lesson_content) ==
  [topic |-> topic, label |-> label, lang |-> lang, minutes |-> 5,
   day_title |-> day_title, user_goal |-> <<"Nyelvtanulás">>, settings |-> settings,
   preceding_lesson_content |-> preceding_lesson_content]

Profiles ==
  {Profile(<<"Köszönések">>, <<"Lecke">>, S("hu"), <<"Koreai", "-", "Alapozó">>, JNull, JNull),
   Profile(<<"Mondd", "ki">>, <<"Gyakorlás">>, JStr(<<>>), <<"Angol", "-", "Alapozó">>,
           EmptyDict, JStr(<<"A", "lecke", "szövege">>)),
   Profile(<<"Budgeting", "basics">>, <<"Practice">>, S("en"), <<"Day", "1">>,
           JDict([target_language |-> JStr(<<WS, "Korean", WS>>)]), JStr(<<"Lesson", "text">>))}

\* the systems around generate_focus_item at rest
ValidatorIdle ==
  /\ candidate = JNull
  /\ verdict = NoVerdict

ChainIdle ==
  /\ chain_pc = "idle"
  /\ rows = <<>>
  /\ current = 0
  /\ language_domain = FALSE
  /\ scan = 0
  /\ chain = [source |-> 0, parts |-> <<>>]
  /\ response = "none"
  /\ chain_log = {}

\* the arguments of generate_focus_outline
OutlineReq(user_goal, lang, duration_days) ==
  [user_goal |-> user_goal, lang |-> lang, duration_days |-> duration_days,
   focus_type |-> <<"learning">>, domain |-> <<"language">>, level |-> <<"beginner">>,
   minutes_per_day |-> 20]

OutlineIdle ==
  /\ outline_pc = "idle"
  /\ outline_req = OutlineReq(<<>>, <<"hu">>, 7)
  /\ outline = JNull
  /\ outline_log = {}

NormIdle ==
  /\ norm_pc = "idle"
  /\ norm_req = [data |-> JNull, day_index |-> 0, is_hu |-> TRUE, domain |-> JNull]
  /\ norm_day = JNull
  /\ norm_prev = JNull

\* every system declared after the outline is at rest, but for the named one
TasksIdle ==
  /\ tasks_pc = "idle"
  /\ tasks_req = [room_id |-> <<>>, day_index |-> 0, domain |-> <<>>, llm_available |-> TRUE]
  /\ gen_pc = <<>>
  /\ gen_llm = <<>>
  /\ gen_order = <<>>
  /\ tasks_resp = JNull

ItemIdle ==
  /\ item_row = [type |-> "", kind |-> "", language |-> FALSE, content |-> JNull]
  /\ req_pc = <<>>
  /\ req_seen = <<>>
  /\ req_chained = <<>>
  /\ req_resp = <<>>
  /\ req_llm = <<>>
  /\ req_wrote = <<>>
  /\ last_writer = 0
  /\ overlap = FALSE

PlanIdle ==
  /\ clock = [date |-> 0, early |-> FALSE]
  /\ plan_days = <<>>
  /\ stats_rows = <<>>
  /\ last_call = [op |-> "none", plan |-> 0, day |-> 0, status |-> "none", overlapped |-> FALSE]
  /\ day_reqs = <<>>

RestIdleExcept(sys) ==
  /\ (sys = "plan" \/ PlanIdle)
  /\ (sys = "normalize" \/ NormIdle)
  /\ (sys = "tasks" \/ TasksIdle)
  /\ (sys = "item" \/ ItemIdle)

RestIdle == RestIdleExcept("none")

OthersIdle ==
  /\ ValidatorIdle
  /\ ChainIdle
  /\ OutlineIdle
  /\ RestIdle

\* generate_focus_item at rest
ControllerIdle ==
  /\ pc = "idle"
  /\ call = MkCall(KindArgs(S("lesson"), JNull, S("other")), CHOOSE p \in Profiles : p.lang = S("en"), 0)
  /\ cur = NoFrame
  /\ kind = "none"
  /\ prompt = NoPrompt
  /\ retry_count = 0
  /\ attempts = 0
  /\ text = NoResponse
  /\ outcome = NoOutcome
  /\ result = JNull
  /\ error = "none"
  /\ seed = 0
  /\ calls = 0
  /\ prev = JNull
  /\ script_retries = 0

Init ==
  /\ pc = "idle"
  /\ call \in {MkCall(k, p, n) : k \in PlanItems, p \in Profiles, n \in 0..MaxRetries}
  /\ cur = NoFrame
  /\ kind = "none"
  /\ prompt = NoPrompt
  /\ retry_count = 0
  /\ attempts = 0
  /\ text = NoResponse
  /\ outcome = NoOutcome
  /\ result = JNull
  /\ error = "none"
  /\ seed \in Seeds
  /\ calls = 0
  /\ prev = JNull
  /\ script_retries = 0
  /\ OthersIdle

\* ------------------------------------------------------------------------
\* generate_focus_item
\* ------------------------------------------------------------------------
\* the caller's first call: retry_count = 0
Call ==
  /\ pc = "idle"
  /\ EnterAttempt(call.item_type, call.practice_type, call.domain, call.lang, 0, 1)
  /\ calls' = calls + 1
  /\ script_retries' = 0
  /\ UNCHANGED <<call, result, error, seed, prev>>
  /\ UNCHANGED otherVars

\* the caller repeats the call with the same arguments, in the same process
\* or after a restart of the server
CallAgain ==
  /\ pc = "returned"
  /\ calls < MaxCalls
  /\ EnterAttempt(call.item_type, call.practice_type, call.domain, call.lang, 0, 1)
  /\ calls' = calls + 1
  /\ prev' = result
  /\ result' = JNull
  /\ seed' \in Seeds
  /\ script_retries' = 0
  /\ UNCHANGED <<call, error>>
  /\ UNCHANGED otherVars

\* text = await _claude_json_haiku(...): the LLM call returns
LLMReturns ==
  /\ pc = "awaiting"
  /\ \E t \in Responses(kind) :
       /\ text' = t
       /\ outcome' = OutcomeOf(t)
  /\ pc' = "received"
  /\ UNCHANGED <<call, cur, kind, prompt, retry_count, attempts, result, error, seed,
                 calls, prev, script_retries>>
  /\ UNCHANGED otherVars

\* raise <exception>
Raise(exception) ==
  /\ pc' = "raised"
  /\ error' = exception
  /\ UNCHANGED <<call, cur, kind, prompt, retry_count, attempts, text, outcome, result,
                 seed, calls, prev, script_retries>>
  /\ UNCHANGED otherVars

\* return <item>
Return(item) ==
  /\ pc' = "returned"
  /\ result' = item
  /\ UNCHANGED <<call, cur, kind, prompt, retry_count, attempts, text, outcome, error,
                 seed, calls, prev, script_retries>>
  /\ UNCHANGED otherVars

\* return await generate_focus_item(..., retry_count=retry_count + 1, ...)
Retry ==
  /\ Recurse
  /\ UNCHANGED <<call, result, error, seed, calls, prev, script_retries>>
  /\ UNCHANGED otherVars

\* the text is an LLM error: RuntimeError("Claude API temporarily unavailable")
LLMError ==
  /\ pc = "received"
  /\ outcome.o = "llm_error"
  /\ Raise("RuntimeError")

\* no object in the text, retries left
ParseFailRetry ==
  /\ pc = "received"
  /\ outcome.o = "parse_fail"
  /\ MayRetry(retry_count, call.max_retries)
  /\ Retry

\* no object in the text, retries exhausted
ParseFailFallback ==
  /\ pc = "received"
  /\ outcome.o = "parse_fail"
  /\ ~MayRetry(retry_count, call.max_retries)
  /\ Return(FallbackOf)

\* data["validation"]["require_interaction"] = ... on a non-dict: TypeError
NormalizeRaise ==
  /\ pc = "received"
  /\ outcome.o = "normalize_raise"
  /\ Raise("TypeError")

\* _validate_focus_item raises on a value of the wrong type
ValidateRaise ==
  /\ pc = "received"
  /\ outcome.o = "validate_raise"
  /\ Raise("AttributeError")

\* the validator rejects the item, retries left
InvalidRetry ==
  /\ pc = "received"
  /\ outcome.o = "invalid"
  /\ MayRetry(retry_count, call.max_retries)
  /\ Retry

\* the validator rejects the item, retries exhausted
InvalidFallback ==
  /\ pc = "received"
  /\ outcome.o = "invalid"
  /\ ~MayRetry(retry_count, call.max_retries)
  /\ Return(FallbackOf)

\* the script check meets an entry that is no dict or a word that is no str
ScriptCheckRaise ==
  /\ pc = "received"
  /\ outcome.o = "script_raise"
  /\ Raise("AttributeError")

\* a valid lesson in the wrong script: one more attempt
ScriptMismatchRetry ==
  /\ pc = "received"
  /\ outcome.o = "script_mismatch"
  /\ Recurse
  /\ script_retries' = script_retries + 1
  /\ UNCHANGED <<call, result, error, seed, calls, prev>>
  /\ UNCHANGED otherVars

\* return data
Accept ==
  /\ pc = "received"
  /\ outcome.o = "accept"
  /\ Return(outcome.data)

Next ==
  \/ Call
  \/ CallAgain
  \/ LLMReturns
  \/ LLMError
  \/ ParseFailRetry
  \/ ParseFailFallback
  \/ NormalizeRaise
  \/ ValidateRaise
  \/ InvalidRetry
  \/ InvalidFallback
  \/ ScriptCheckRaise
  \/ ScriptMismatchRetry
  \/ Accept

Spec == Init /\ [][Next]_vars

\* ------------------------------------------------------------------------
\* Kind resolution as a system: arguments are drawn, then resolved
\* ------------------------------------------------------------------------
ItemTypeArgs ==
  {JStr(<<w>>) : w \in {"lesson", "quiz", "flashcard", "task", "briefing", "feedback",
                        "smart_lesson", "translation", "cards", "practice",
                        "Translation", "Quiz", "Lesson"}}
  \cup {JStr(<<WS, "translation", WS>>), JStr(<<>>), JNull}

PracticeTypeArgs ==
  {JStr(<<w>>) : w \in {"translation", "exercise", "roleplay", "dialogue", "writing",
                        "speaking", "quiz", "cards", "flashcard", "practice_speaking",
                        "task", "unknown", "Translation", "Speaking"}}
  \cup {JStr(<<WS, "translation", WS>>), JStr(<<WS, "Exercise">>), JStr(<<>>),
        JNull, JInt(1)}

DomainArgs ==
  {JStr(<<w>>) : w \in {"language_learning", "language", "Language", "fitness",
                        "other", "smart_learning"}}
  \cup {JStr(<<>>), JNull}

InitKind ==
  /\ pc = "idle"
  /\ call \in {MkCall(k, CHOOSE p \in Profiles : p.lang = S("en"), 0) :
                 k \in [item_type : ItemTypeArgs, practice_type : PracticeTypeArgs,
                        domain : DomainArgs]}
  /\ cur = NoFrame
  /\ kind = "none"
  /\ prompt = NoPrompt
  /\ retry_count = 0
  /\ attempts = 0
  /\ text = NoResponse
  /\ outcome = NoOutcome
  /\ result = JNull
  /\ error = "none"
  /\ seed = 0
  /\ calls = 0
  /\ prev = JNull
  /\ script_retries = 0
  /\ OthersIdle

NextKind == Call

SpecKind == InitKind /\ [][NextKind]_vars

\* ------------------------------------------------------------------------
\* _validate_focus_item as a system: an item is drawn, then validated
\* ------------------------------------------------------------------------
Interactive == JDict([require_interaction |-> JBool(TRUE)])

\* an item of kind k with every required field and the given payload
ItemOf(k, content) == LLMItem(S(k), content, Interactive)

\* payloads that are not an object, and the empty object
MalformedContents == {JStr(<<"Csak", "szöveg">>), JList(<<LongText>>), JInt(7), JNull, EmptyDict}

Opts(a, b, c) == JList(<<a, b, c>>)
GoodOpts == Opts(S("Alma"), S("Banán"), S("Körte"))

\* a quiz question with the given options and correct_index
Question(options, correct_index) ==
  DSet(DSet(GoodQuestion("1"), "options", options), "correct_index", correct_index)

\* a quiz payload whose first question is q
QuizOf(q) ==
  JDict([questions |-> JList(<<q, GoodQuestion("2"), GoodQuestion("3"), GoodQuestion("4")>>)])

RepeatedOpts == Opts(S("Alma"), S("Banán"), S("Alma"))
EmptyOptionOpts == Opts(S("Alma"), S("Banán"), NoStr)

OptionLists ==
  {GoodOpts, RepeatedOpts, EmptyOptionOpts,
   Opts(S("Alma"), S("alma"), S("Körte")),
   Opts(S("Banán"), S("Banan"), S("Körte")),
   Opts(JStr(<<WS, "Alma", WS>>), S("Alma"), S("Körte")),
   Opts(S("a"), S("Banán"), S("Körte")),
   Opts(NoStr, NoStr, S("Alma")),
   Opts(S("Alma"), S("Banán"), JStr(<<WS>>)),
   Opts(S("Alma"), S("Banán"), JNull),
   Opts(S("Alma"), S("Banán"), JInt(5)),
   Opts(S("Alma"), S("Banán"), JDict([text |-> S("Körte")])),
   JList(<<S("Alma"), S("Banán")>>),
   JList(<<S("Alma"), S("Banán"), S("Körte"), S("Szilva")>>),
   NoList, JNull, JInt(3)}

Indexes == {JInt(0), JInt(2), JInt(3), JInt(-1), JBool(TRUE), JStr(<<"1">>), JNull, JList(<<JInt(1)>>)}

Questions ==
  {Question(o, JInt(1)) : o \in OptionLists}
  \cup {Question(GoodOpts, ci) : ci \in Indexes}
  \cup {DDel(GoodQuestion("1"), "explanation"), DDel(GoodQuestion("1"), "q"),
        DDel(GoodQuestion("1"), "options"),
        DSet(DDel(GoodQuestion("1"), "correct_index"), "answer_index", JInt(2)),
        JStr(<<"Mit", "jelent", "ez", "a", "szó?">>), JNull}

\* the legacy single-question quiz
LegacyQuiz(choices, correct_index) == JDict([choices |-> choices, correct_index |-> correct_index])

QuizContents ==
  {QuizOf(q) : q \in Questions}
  \cup {LegacyQuiz(o, JInt(1)) : o \in {GoodOpts, RepeatedOpts, JList(<<S("Alma"), S("Banán")>>), JInt(3)}}
  \cup {LegacyQuiz(GoodOpts, ci) : ci \in {JInt(3), JStr(<<"1">>), JNull}}
  \cup {JDict([questions |-> JList(<<GoodQuestion("1"), GoodQuestion("2"), GoodQuestion("3")>>)]),
        JDict([questions |-> LongText]),
        JDict([questions |-> JInt(4)])}

\* a micro task with the given options and correct_index
Task(options, correct_index) ==
  DSet(DSet(GoodTask, "options", options), "correct_index", correct_index)

\* a smart_lesson payload whose micro tasks are t1 and t2
SmartLessonOf(t1, t2) ==
  JDict([hook |-> LongText, insight |-> LongText, micro_task_1 |-> t1, micro_task_2 |-> t2])

RealOpt1 == JStr(<<"Állampapír", "vásárlása">>)
RealOpt2 == JStr(<<"Bankbetét", "lekötése">>)
RealOpt3 == JStr(<<"Készpénz", "otthon">>)

TaskOptionLists ==
  {Opts(RealOpt1, RealOpt2, RealOpt3),
   Opts(RealOpt1, RealOpt2, S("a")),
   Opts(RealOpt1, RealOpt2, NoStr),
   Opts(RealOpt1, RealOpt2, RealOpt1),
   Opts(RealOpt1, S("a"), S("b")),
   Opts(RealOpt1, RealOpt2, JInt(3)),
   JList(<<RealOpt1, RealOpt2>>),
   JList(<<RealOpt1, RealOpt2, RealOpt3, S("Részvény")>>),
   JNull, JInt(3)}

Tasks ==
  {Task(o, JInt(0)) : o \in TaskOptionLists}
  \cup {Task(Opts(RealOpt1, RealOpt2, RealOpt3), ci) : ci \in Indexes}
  \cup {DSet(GoodTask, "explanation", NoStr), DDel(GoodTask, "explanation"),
        DDel(GoodTask, "instruction"), DDel(GoodTask, "options"),
        DDel(GoodTask, "correct_index"), JStr(<<"Válaszd", "ki">>), JNull}

SmartLessonContents ==
  {SmartLessonOf(t, GoodTask) : t \in Tasks}
  \cup {SmartLessonOf(GoodTask, t) : t \in Tasks}
  \cup {DDel(GoodContent("smart_lesson"), k) : k \in {"hook", "insight", "micro_task_1", "micro_task_2"}}
  \cup {DSet(GoodContent("smart_lesson"), "hook", x) : x \in {S("Rövid"), JInt(7), JList(<<LongText>>)}}

StepObject == JDict([instruction |-> LongText])
ItemObject == JDict([text |-> LongText])

ChecklistContents ==
  {JDict([steps |-> JList(<<StepObject, StepObject, StepObject>>)]),
   JDict([steps |-> JList(<<LongText, StepObject, LongText>>)]),
   JDict([steps |-> LongText]),
   JDict([steps |-> JInt(3)]),
   JDict([items |-> JList(<<ItemObject, ItemObject, ItemObject, ItemObject, ItemObject>>)]),
   JDict([items |-> JList(<<LongText, LongText, LongText, LongText, LongText>>)]),
   JDict([items |-> JList(<<LongText, ItemObject, JInt(12345678), LongText, JNull>>)]),
   JDict([items |-> JList(<<LongText, LongText, LongText, LongText, JDict([text |-> JInt(1)])>>)]),
   JDict([items |-> JInt(5)]),
   JDict([steps |-> JList(<<LongText, LongText, JStr(<<"Mondd", "ki", "a", "szót.">>)>>)])}

\* the items handed to the validator
ValidatorInputs ==
  {ItemOf(k, GoodContent(k)) : k \in VALID_KINDS}
  \cup {DDel(ItemOf(k, GoodContent(k)), f) : k \in VALID_KINDS, f \in REQUIRED_FIELDS}
  \cup {ItemOf(k, c) : k \in VALID_KINDS, c \in MalformedContents}
  \cup {LLMItem(S(k), GoodContent(k), v) : k \in VALID_KINDS, v \in {S("strict"), EmptyDict, JNull}}
  \cup {LLMItem(kf, GoodContent("quiz"), Interactive) : kf \in {S("exam"), JInt(1), JNull, NoStr}}
  \cup {ItemOf("quiz", c) : c \in QuizContents}
  \cup {ItemOf("smart_lesson", c) : c \in SmartLessonContents}
  \cup {ItemOf("checklist", c) : c \in ChecklistContents}

InitValidate ==
  /\ ControllerIdle
  /\ candidate \in ValidatorInputs
  /\ verdict = NoVerdict
  /\ ChainIdle
  /\ OutlineIdle
  /\ RestIdle

\* ok, msg = _validate_focus_item(candidate)
Validate ==
  /\ verdict = NoVerdict
  /\ verdict' = validate_focus_item(candidate)
  /\ UNCHANGED <<ctlVars, candidate, chainVars, outlineVars, restVars>>

NextValidate == Validate

SpecValidate == InitValidate /\ [][NextValidate]_vars

\* ------------------------------------------------------------------------
\* Items written to the letter of the prompt of _build_item_generation_prompt
\* ------------------------------------------------------------------------
\* entries a list has above the least number its content spec asks for
MaxExtra == 1
Difficulties == {"easy", "normal", "hard"}

Repeat(x, n) == [i \in 1..n |-> x]

\* the last key of a dict is there or not
Optional(d, present, key, value) == IF present THEN DSet(d, key, value) ELSE d

PromptQuestion ==
  JDict([question |-> JStr(<<"Mit", "jelent", "ez", "a", "szó?">>),
         options |-> JList(<<JStr(<<"Alma">>), JStr(<<"Banán">>), JStr(<<"Körte">>)>>),
         correct_index |-> JInt(0),
         explanation |-> JStr(<<"A", "helyes", "válasz", "a", "második.">>)])

\* content_spec_content of a language domain
PromptLanguageLesson(extra) ==
  JDict([title |-> JStr(<<"Az", "elsõ", "betûk">>),
         content_type |-> S("language_lesson"),
         introduction |-> JStr(<<"Ebben", "a", "leckében", "a", "köszönéseket", "tanulod", "meg,",
                                 "hogy", "az", "elsõ", "találkozáskor", "is", "magabiztosan",
                                 "tudj", "megszólalni", "és", "válaszolni.">>),
         vocabulary_table |-> JList(Repeat(JDict([word |-> S("Hello"), translation |-> S("Helló"),
                                                  pronunciation |-> S("Hello"),
                                                  example_sentence |-> JStr(<<"Hello,", "what", "would", "you", "like?">>),
                                                  example_translation |-> LongText]), 5 + extra)),
         grammar_explanation |-> JDict([rule_title |-> S("Jelentés"), explanation |-> LongText,
                                        formation_pattern |-> LongText,
                                        examples |-> JList(<<JDict([target |-> S("Hello"), hungarian |-> S("Helló"),
                                                                    note |-> LongText])>>)]),
         dialogues |-> JList(<<JDict([title |-> JStr(<<"A", "kávézóban">>),
                                      lines |-> JList(<<JDict([speaker |-> S("A"), text |-> S("Hello"), translation |-> S("Helló")]),
                                                        JDict([speaker |-> S("B"), text |-> S("Hello"), translation |-> S("Helló")])>>)])>>),
         practice_exercises |-> JList(<<JDict([type |-> S("fill_in_blank"), instruction |-> LongText,
                                               items |-> JList(Repeat(JDict([prompt |-> LongText, answer |-> S("Hello")]), 2 + extra))])>>),
         summary |-> LongText,
         key_points |-> JList(Repeat(LongText, 3 + extra)),
         common_mistakes |-> JList(Repeat(LongText, 3 + extra)),
         estimated_minutes |-> JInt(5)])

\* content_spec_content of the other domains
PromptLesson(extra) ==
  JDict([title |-> JStr(<<"Az", "elsõ", "betûk">>),
         summary |-> LongText,
         key_points |-> JList(Repeat(LongText, 4 + extra)),
         example |-> LongText,
         micro_task |-> JDict([instruction |-> LongText, expected_output |-> LongText]),
         common_mistakes |-> JList(Repeat(LongText, 3 + extra)),
         estimated_minutes |-> JInt(5)])

\* content_specs[kind]: the content the prompt prescribes for the kind, its
\* lists with the least number of entries of their rule plus extra, its
\* optional field written or not
content_specs(task_kind, language, extra, optional) ==
  CASE task_kind = "content" -> IF language THEN PromptLanguageLesson(extra) ELSE PromptLesson(extra)
    [] task_kind = "translation" ->
         JDict([sentences |-> JList(Repeat(Optional(JDict([source |-> JStr(<<"Jó", "reggelt">>), target_lang |-> S("en")]),
                                                    optional, "hint", S("Hello")), 4 + extra))])
    [] task_kind = "quiz" ->
         JDict([title |-> JStr(<<"Az", "elsõ", "betûk">>),
                questions |-> JList(Repeat(PromptQuestion, 4 + extra))])
    [] task_kind = "cards" ->
         JDict([cards |-> JList(Repeat(JDict([front |-> S("Hello"), back |-> S("Helló")]), 5 + extra))])
    [] task_kind = "roleplay" ->
         JDict([scenario |-> LongText,
                roles |-> JDict([user |-> S("A"), ai |-> S("B")]),
                starter_prompt |-> JStr(<<"Hello,", "what", "would", "you", "like?">>),
                sample_exchanges |-> JList(Repeat(JDict([user |-> S("Hello"), ai |-> S("Hello")]), 2 + extra))])
    [] task_kind = "writing" ->
         JDict([prompt |-> LongText, example |-> LongText, word_count_target |-> JInt(50)])
    [] task_kind = "checklist" ->
         JDict([steps |-> JList(Repeat(JDict([instruction |-> LongText]), 5 + extra)),
                proof_prompt |-> JStr(<<"Írd", "le", "az", "eredményt.">>)])
    [] task_kind = "upload_review" ->
         JDict([title |-> JStr(<<"Az", "elsõ", "betûk">>), prompt |-> LongText,
                rubric |-> JList(Repeat(LongText, 4 + extra)), estimated_minutes |-> JInt(5)])
    [] task_kind = "briefing" ->
         JDict([situation |-> LongText, outcome |-> LongText,
                key_vocabulary_preview |-> JList(Repeat(S("Hello"), 3 + extra))])
    [] task_kind = "feedback" ->
         Optional(JDict([user_text |-> JStr(<<"I", "goed">>),
                         corrections |-> JList(Repeat(JDict([original |-> JStr(<<"I", "goed">>),
                                                             corrected |-> JStr(<<"I", "went">>),
                                                             explanation |-> LongText]), 2 + extra)),
                         improved_version |-> JStr(<<"I", "went">>),
                         score |-> JInt(4),
                         praise |-> LongText]),
                  optional, "alternative_tone", LongText)
    [] task_kind = "smart_lesson" ->
         JDict([hook |-> LongText, micro_task_1 |-> GoodTask, micro_task_2 |-> GoodTask, insight |-> LongText])

\* schema_def: the item around the content
schema_def(task_kind, content, difficulty, optional) ==
  JDict([schema_version |-> S("1.0"),
         kind |-> S(task_kind),
         idempotency_key |-> S("unique-string"),
         title |-> JStr(<<"Gyakorlat">>),
         subtitle |-> JStr(<<"Rövid", "feladat">>),
         estimated_minutes |-> JInt(5),
         difficulty |-> S(difficulty),
         instructions_md |-> JStr(<<"Oldd", "meg", "a", "feladatot", "írásban.">>),
         rubric_md |-> LongText,
         ui |-> JDict([primary_cta |-> S("Kész"), secondary_cta |-> IF optional THEN S("Vissza") ELSE JNull]),
         input |-> JDict([type |-> S(RulesOf(task_kind).input_type), placeholder |-> JNull]),
         content |-> content,
         validation |-> JDict([require_interaction |-> JBool(TRUE),
                               min_chars |-> JInt(RulesOf(task_kind).min_chars),
                               min_items |-> JInt(RulesOf(task_kind).min_items)]),
         scoring |-> JDict([mode |-> S("manual"), max_points |-> JInt(10)])])

\* the items of an LLM that follows the prompt
PromptItems ==
  {schema_def(k, content_specs(k, lg, e, o), d, o) :
     k \in VALID_KINDS, lg \in BOOLEAN, e \in 0..MaxExtra, o \in BOOLEAN, d \in Difficulties}

InitPrompt ==
  /\ ControllerIdle
  /\ candidate \in PromptItems
  /\ verdict = NoVerdict
  /\ ChainIdle
  /\ OutlineIdle
  /\ RestIdle

SpecPrompt == InitPrompt /\ [][NextValidate]_vars

\* ------------------------------------------------------------------------
\* Content chaining in generate_item_content (focus_api.py)
\* ------------------------------------------------------------------------
PRACTICE_KINDS == {"quiz", "translation", "roleplay", "writing", "cards"}

\* str(x or "").strip()
StrOrEmpty(x) == IF Truthy(x) THEN Strip(PyStr(x)) ELSE <<>>

\* the entry is an object with a non-empty string under both keys
HasPair(e, k1, k2) ==
  /\ e.t = "dict"
  /\ StrOrEmpty(Get(e, k1, JNull)) # <<>>
  /\ StrOrEmpty(Get(e, k2, JNull)) # <<>>

\* x[:n] of a list, the empty list for anything that is not a non-empty list
Slice(x, n) == IF x.t = "list" THEN SubSeq(x.v, 1, Min(n, Len(x.v))) ELSE <<>>

\* the "left = right" lines of the first n entries that have both
PairLines(x, n, k1, k2) ==
  LET kept == SelectSeq(Slice(x, n), LAMBDA e : HasPair(e, k1, k2))
  IN [i \in 1..Len(kept) |-> <<StrOrEmpty(kept[i].v[k1]), StrOrEmpty(kept[i].v[k2])>>]

\* the VOCABULARY part: at most 15 words
VocabularyPart(src) ==
  LET items == PairLines(Get(src, "vocabulary_table", NoList), 15, "word", "translation")
  IN IF items = <<>> THEN <<>> ELSE <<[section |-> "VOCABULARY", lines |-> items]>>

\* the GRAMMAR part: rule, pattern and at most 3 examples
GrammarLines(grammar) ==
  (IF StrOrEmpty(Get(grammar, "rule_title", JNull)) # <<>>
   THEN <<<<<<"Rule:">>, StrOrEmpty(Get(grammar, "rule_title", JNull))>>>> ELSE <<>>)
  \o (IF StrOrEmpty(Get(grammar, "formation_pattern", JNull)) # <<>>
      THEN <<<<<<"Pattern:">>, StrOrEmpty(Get(grammar, "formation_pattern", JNull))>>>> ELSE <<>>)
  \o PairLines(Get(grammar, "examples", NoList), 3, "target", "hungarian")

GrammarPart(src) ==
  LET grammar == Get(src, "grammar_explanation", EmptyDict)
  IN IF grammar.t # "dict" \/ ~Truthy(grammar) \/ GrammarLines(grammar) = <<>> THEN <<>>
     ELSE <<[section |-> "GRAMMAR", lines |-> GrammarLines(grammar)]>>

RECURSIVE FirstSnippets(_)
\* the first two lines of the first dialogue that has a line with a translation
FirstSnippets(dialogues) ==
  IF dialogues = <<>> THEN <<>>
  ELSE IF Head(dialogues).t = "dict"
          /\ PairLines(Get(Head(dialogues), "lines", NoList), 2, "text", "translation") # <<>>
       THEN PairLines(Get(Head(dialogues), "lines", NoList), 2, "text", "translation")
       ELSE FirstSnippets(Tail(dialogues))

DialoguePart(src) ==
  LET snippets == FirstSnippets(Slice(Get(src, "dialogues", NoList), 1000))
  IN IF snippets = <<>> THEN <<>> ELSE <<[section |-> "DIALOGUE", lines |-> snippets]>>

\* the COMMON MISTAKES part: at most 5
MistakesPart(src) ==
  LET kept == SelectSeq(Slice(Get(src, "common_mistakes", NoList), 5),
                        LAMBDA x : Strip(PyStr(x)) # <<>>)
  IN IF kept = <<>> THEN <<>>
     ELSE <<[section |-> "COMMON MISTAKES",
             lines |-> [i \in 1..Len(kept) |-> <<Strip(PyStr(kept[i]))>>]]>>

\* a full item is unwrapped to its payload, a payload wrapped as data to its data
Unwrapped(content) ==
  IF Get(content, "content", JNull).t = "dict"
     /\ (Truthy(Get(content, "kind", JNull)) \/ Truthy(Get(content, "schema_version", JNull)))
  THEN content.v["content"] ELSE content

UnwrappedData(src) == IF Get(src, "data", JNull).t = "dict" THEN src.v["data"] ELSE src

\* _extract_lesson_context(content): the parts of the text it returns, <<>> for ""
extract_lesson_context(content) ==
  IF content.t # "dict" THEN <<>>
  ELSE VocabularyPart(UnwrappedData(Unwrapped(content)))
       \o GrammarPart(UnwrappedData(Unwrapped(content)))
       \o DialoguePart(UnwrappedData(Unwrapped(content)))
       \o MistakesPart(UnwrappedData(Unwrapped(content)))

\* content_type of a stored lesson: of its payload, else of the item itself
ContentTypeOf(lesson_content) ==
  LET inner == Get(lesson_content, "content", JNull)
      nested == IF inner.t = "dict" THEN Get(inner, "content_type", JNull) ELSE JNull
  IN IF Truthy(nested) THEN nested ELSE Get(lesson_content, "content_type", JNull)

\* `not lesson_content or content_type != "language_lesson"`: the lesson is generated now
NeedsLesson(stored) ==
  \/ stored.t # "dict"
  \/ ~Truthy(stored)
  \/ ContentTypeOf(stored) # S("language_lesson")

\* a row of focus_items as the sibling query selects it
Row(id, order_index, row_kind, content) ==
  [id |-> id, order_index |-> order_index, kind |-> row_kind, content |-> content]

NoChain == [source |-> 0, parts |-> <<>>]

RECURSIVE ScanFrom(_, _, _)
RECURSIVE AfterLesson(_, _, _, _)
\* the loop over reversed(day_items_res.data) from row i down, up to the row
\* whose lesson has to be generated ("generate"), the row whose lesson is
\* used ("use"), the end of the rows ("end") or the TypeError of comparing
\* a null order_index ("raise")
ScanFrom(rs, i, current_order) ==
  IF i = 0 THEN [what |-> "end", at |-> 0, parts |-> <<>>]
  ELSE IF ~IsNum(rs[i].order_index) \/ ~IsNum(current_order)
       THEN [what |-> "raise", at |-> i, parts |-> <<>>]
  ELSE IF NumVal(rs[i].order_index) >= NumVal(current_order) THEN ScanFrom(rs, i - 1, current_order)
  ELSE IF rs[i].kind # "content" THEN ScanFrom(rs, i - 1, current_order)
  ELSE IF NeedsLesson(rs[i].content) THEN [what |-> "generate", at |-> i, parts |-> <<>>]
  ELSE AfterLesson(rs, i, current_order, rs[i].content)

\* the end of the loop body for row i with the lesson at hand: a non-empty
\* extract is used and ends the loop, else the loop goes on with the row before
AfterLesson(rs, i, current_order, lesson_content) ==
  IF lesson_content.t = "dict" /\ extract_lesson_context(lesson_content) # <<>>
  THEN [what |-> "use", at |-> i, parts |-> extract_lesson_context(lesson_content)]
  ELSE ScanFrom(rs, i - 1, current_order)

\* is_language_domain and (stored_kind in practice_kinds or item_type in practice_kinds)
ChainingApplies(is_language, stored_kind) == is_language /\ stored_kind \in PRACTICE_KINDS

\* a chaining exception that leaves the handler instead of being logged
AfterChainErrorFatal == "failed"

\* except Exception as chain_err: logged, the handler goes on to generate the item
AfterChainError == "item"

MaxDayItems == 3

LessonWords == <<"alma", "körte", "szilva", "barack">>
LessonMeanings == <<"apple", "pear", "plum", "peach">>

\* a stored item of kind content around the given payload
LessonItem(payload) ==
  JDict([schema_version |-> S("1.0"), kind |-> S("content"), content |-> payload])

\* the language lesson of the row at position i: its own vocabulary
RichLesson(i) == LessonItem(LanguageLessonContent(<<VocabEntry(LessonWords[i], LessonMeanings[i])>>))

\* a language lesson with nothing for the extract: no vocabulary with a
\* translation, no grammar rule, no translated dialogue line, no mistakes
PoorLesson == LessonItem(LanguageLessonContent(<<>>))

\* a lesson of the non-Latin beginner track
NonLatinLesson == LessonItem(NonLatinContent(<<"¤", "¤¤">>))

\* the lesson _create_fallback_item makes in a language domain
FallbackLesson == create_fallback_item("content", <<"Köszönések">>, <<"Tananyag">>, <<"hu">>, 5, <<"language_learning">>, 0)

\* the rows a day can hold at position i; every row is of a type the plan
\* mode allows (lesson or quiz), so that the handler reaches the chaining
RowsAt(i) ==
  {Row(i, JInt(i), "content", c) : c \in {JNull, RichLesson(i), PoorLesson, NonLatinLesson}}
  \cup {Row(i, JInt(i), "quiz", JNull), Row(i, JInt(i), "translation", JNull),
        Row(i, JNull, "content", RichLesson(i))}

\* a null order_index sorts last
Sorted(rs) == \A i \in 1..(Len(rs) - 1) : IsNum(rs[i + 1].order_index) => IsNum(rs[i].order_index)

\* the days: the rows of one day_id in the order of the query (order_index)
Days ==
  {rs \in UNION {[1..n -> UNION {RowsAt(i) : i \in 1..n}] : n \in 1..MaxDayItems} :
     /\ \A i \in 1..Len(rs) : rs[i].id = i
     /\ Sorted(rs)}

\* what the nested generate_focus_item can return for the lesson of row i
LessonResults(i) == {RichLesson(i), NonLatinLesson, FallbackLesson}

\* the item the final generate_focus_item returns: its kind, and the chain
\* marker when lesson context was passed
GeneratedItem(item_kind, chained) ==
  IF chained
  THEN JDict([schema_version |-> S("1.0"), kind |-> S(item_kind), chain_version |-> S("lesson_v2")])
  ELSE JDict([schema_version |-> S("1.0"), kind |-> S(item_kind)])

\* the state after the loop stopped with the scan result s and the log lines so far
Resume(s, log) ==
  /\ scan' = s.at
  /\ chain_pc' = IF s.what = "generate" THEN "lesson"
                 ELSE IF s.what = "raise" THEN AfterChainError ELSE "item"
  /\ chain' = IF s.what = "use" THEN [source |-> rows[s.at].id, parts |-> s.parts] ELSE chain
  /\ chain_log' = IF s.what = "raise" THEN log \cup {"Content chaining failed"} ELSE log

CurrentOrder == rows[current].order_index

InitChain ==
  /\ ControllerIdle
  /\ ValidatorIdle
  /\ OutlineIdle
  /\ RestIdle
  /\ chain_pc = "idle"
  /\ rows \in Days
  /\ current \in 1..Len(rows)
  /\ language_domain \in BOOLEAN
  /\ scan = 0
  /\ chain = NoChain
  /\ response = "none"
  /\ chain_log = {}

\* not a practice item of a language domain: no chaining
Unchained ==
  /\ chain_pc = "idle"
  /\ ~ChainingApplies(language_domain, rows[current].kind)
  /\ chain_pc' = "item"
  /\ UNCHANGED <<ctlVars, valVars, outlineVars, restVars, rows, current, language_domain, scan, chain, response, chain_log>>

\* the sibling query raises
ReadSiblingsFails ==
  /\ chain_pc = "idle"
  /\ ChainingApplies(language_domain, rows[current].kind)
  /\ chain_pc' = AfterChainError
  /\ chain_log' = chain_log \cup {"Content chaining failed"}
  /\ UNCHANGED <<ctlVars, valVars, outlineVars, restVars, rows, current, language_domain, scan, chain, response>>

\* the sibling query answers: the backward scan up to its first await or its end
ReadSiblings ==
  /\ chain_pc = "idle"
  /\ ChainingApplies(language_domain, rows[current].kind)
  /\ Resume(ScanFrom(rows, Len(rows), CurrentOrder), chain_log)
  /\ UNCHANGED <<ctlVars, valVars, outlineVars, restVars, rows, current, language_domain, response>>

\* the nested lesson generation returns; the lesson is saved, or the save fails
LessonGenerated ==
  /\ chain_pc = "lesson"
  /\ \E lesson \in LessonResults(scan), saved \in BOOLEAN :
       /\ rows' = IF saved THEN [rows EXCEPT ![scan].content = lesson] ELSE rows
       /\ Resume(AfterLesson(rows, scan, CurrentOrder, lesson),
                 IF saved THEN chain_log ELSE chain_log \cup {"Failed to save auto lesson"})
  /\ UNCHANGED <<ctlVars, valVars, outlineVars, restVars, current, language_domain, response>>

\* the nested lesson generation raises: the stored lesson, if any, is what is at hand
LessonGenerationFails ==
  /\ chain_pc = "lesson"
  /\ Resume(AfterLesson(rows, scan, CurrentOrder,
                        IF rows[scan].content.t = "dict" THEN rows[scan].content ELSE JNull),
            chain_log \cup {"Auto-lesson generation failed"})
  /\ UNCHANGED <<ctlVars, valVars, outlineVars, restVars, rows, current, language_domain, response>>

\* the item generation returns; the item is saved, or the save fails
ItemGenerated ==
  /\ chain_pc = "item"
  /\ chain_pc' = "responded"
  /\ response' = "ok"
  /\ \E saved \in BOOLEAN :
       rows' = IF saved
               THEN [rows EXCEPT ![current].content = GeneratedItem(rows[current].kind, chain # NoChain)]
               ELSE rows
  /\ UNCHANGED <<ctlVars, valVars, outlineVars, restVars, current, language_domain, scan, chain, chain_log>>

\* the item generation raises: HTTP 500
ItemGenerationFails ==
  /\ chain_pc = "item"
  /\ chain_pc' = "responded"
  /\ response' = "error"
  /\ UNCHANGED <<ctlVars, valVars, outlineVars, restVars, rows, current, language_domain, scan, chain, chain_log>>

NextChain ==
  \/ Unchained
  \/ ReadSiblingsFails
  \/ ReadSiblings
  \/ LessonGenerated
  \/ LessonGenerationFails
  \/ ItemGenerated
  \/ ItemGenerationFails

SpecChain == InitChain /\ [][NextChain]_vars

\* ------------------------------------------------------------------------
\* Focus outline: generate_focus_outline and _fallback_focus_outline
\* (llm_client.py)
\* ------------------------------------------------------------------------
\* x or y
PyOr(x, y) == IF Truthy(x) THEN x ELSE y

\* int(x): the number, or not ok for the ValueError of a str that is no
\* number and the TypeError of a null, a list or a dict
PyInt(x) ==
  CASE IsNum(x) -> [ok |-> TRUE, n |-> NumVal(x)]
    [] x.t = "str" ->
         IF Len(Strip(x.v)) = 1 /\ \E n \in -9..9 : ToString(n) = Strip(x.v)[1]
         THEN [ok |-> TRUE, n |-> CHOOSE n \in -9..9 : ToString(n) = Strip(x.v)[1]]
         ELSE [ok |-> FALSE, n |-> 0]
    [] OTHER -> [ok |-> FALSE, n |-> 0]

\* f"Nap {day_index}" if is_hu else f"Day {day_index}"
DayTitle(is_hu, day_index) == JStr(<<IF is_hu THEN "Nap" ELSE "Day">> \o PyStr(day_index))

\* "Rövid napi áttekintés." if is_hu else "Short daily overview."
DayIntro(is_hu) ==
  IF is_hu THEN JStr(<<"Rövid", "napi", "áttekintés.">>) ELSE JStr(<<"Short", "daily", "overview.">>)

\* "Fókusz terv" if is_hu else "Focus plan"
PlanTitle(is_hu) == IF is_hu THEN JStr(<<"Fókusz", "terv">>) ELSE JStr(<<"Focus", "plan">>)

\* the outline dict both paths return
OutlineDict(title, days, req) ==
  JDict([title |-> title, days |-> JList(days), domain |-> JStr(req.domain),
         level |-> JStr(req.level), minutes_per_day |-> JInt(req.minutes_per_day),
         focus_type |-> JStr(req.focus_type)])

\* _fallback_focus_outline: range(1, int(duration_days or 7) + 1) is empty
\* for a negative duration_days
fallback_focus_outline(req) ==
  OutlineDict(IF Strip(req.user_goal) # <<>> THEN JStr(Strip(req.user_goal))
              ELSE PlanTitle(IsHu(req.lang)),
              [i \in 1..(IF req.duration_days # 0 THEN req.duration_days ELSE 7) |->
                 JDict([dayIndex |-> JInt(i), title |-> DayTitle(IsHu(req.lang), JInt(i)),
                        intro |-> DayIntro(IsHu(req.lang)), items |-> JList(<<>>)])],
              req)

\* data = _extract_json_object(s), else json.loads(s), else None: the first
\* object of the text, or the whole text when it is one JSON value
OutlineData(raw) ==
  IF raw.obj.t = "dict" /\ Truthy(extract_json_object(raw)) THEN extract_json_object(raw)
  ELSE IF raw.words = <<>> /\ ~raw.truncated THEN raw.obj
  ELSE JNull

\* day.get("dayIndex") or day.get("day") or idx
DayIndexOf(day, idx) ==
  PyOr(Get(day, "dayIndex", JNull), PyOr(Get(day, "day", JNull), JInt(idx)))

\* one pass of the normalisation loop: day.get on a day that is no dict and
\* int(day_index) on what is no number raise
DayRaises(day, idx) == day.t # "dict" \/ ~PyInt(DayIndexOf(day, idx)).ok

NormalDay(day, idx, is_hu) ==
  JDict([dayIndex |-> JInt(PyInt(DayIndexOf(day, idx)).n),
         title |-> PyOr(Get(day, "title", JNull), DayTitle(is_hu, DayIndexOf(day, idx))),
         intro |-> PyOr(Get(day, "intro", JNull), DayIntro(is_hu)),
         items |-> PyOr(Get(day, "items", JNull), JList(<<>>))])

\* the body of the try block raises: an error text, no object, no days, days
\* that cannot be enumerated, or a day the loop raises on
OutlineRaises(raw) ==
  \/ StartsWithWord(raw.words, "Error:")
  \/ TextMentions(raw, <<"overloaded">>)
  \/ ~Truthy(OutlineData(raw))
  \/ OutlineData(raw).t # "dict"
  \/ ~Truthy(Get(OutlineData(raw), "days", JNull))
  \/ Get(OutlineData(raw), "days", JNull).t \notin {"list", "str", "dict"}
  \/ \E i \in 1..Len(Elems(Get(OutlineData(raw), "days", JNull))) :
       DayRaises(Elems(Get(OutlineData(raw), "days", JNull))[i], i)

\* the outline built from the days of the LLM
NormalOutline(data, req) ==
  OutlineDict(PyOr(Get(data, "title", JNull),
                   PyOr(JStr(req.user_goal), PlanTitle(IsHu(req.lang)))),
              [i \in 1..Len(Get(data, "days", JNull).v) |->
                 NormalDay(Get(data, "days", JNull).v[i], i, IsHu(req.lang))],
              req)

OutlineDayOf(day_index, title, intro, items) ==
  JDict([dayIndex |-> day_index, title |-> title, intro |-> intro, items |-> items])

OutlineOf(title, days) == JDict([title |-> title, days |-> days])

GoodDays ==
  JList(<<OutlineDayOf(JInt(2), S("Köszönések"), S("Alapok"), JList(<<S("x")>>)),
          OutlineDayOf(JInt(1), S("Számok"), S("Gyakorlás"), JList(<<>>))>>)

\* the texts the LLM call of the outline can return
OutlineResponses ==
  <<Response(<<>>, JNull, FALSE),
   Response(<<"Error:", "rate", "limited">>, JNull, FALSE),
   Response(<<"The", "model", "is", "overloaded">>, JNull, FALSE),
   Response(<<"Sorry,", "I", "cannot", "help", "with", "that.">>, JNull, FALSE),
   Response(<<>>, OutlineOf(S("Terv"), GoodDays), TRUE),
   Response(<<>>, EmptyDict, FALSE),
   Response(<<>>, JList(<<JInt(1), JInt(2)>>), FALSE),
   Response(<<>>, JDict([title |-> S("Terv")]), FALSE),
   Response(<<>>, OutlineOf(S("Terv"), JList(<<>>)), FALSE),
   Response(<<>>, OutlineOf(S("Terv"), GoodDays), FALSE),
   Response(<<"Here", "is", "the", "outline:">>, OutlineOf(S("Terv"), GoodDays), FALSE),
   Response(<<>>, OutlineOf(JStr(<<"Overloaded", "no", "more">>), GoodDays), FALSE),
   Response(<<>>, OutlineOf(JNull, JList(<<EmptyDict>>)), FALSE),
   Response(<<>>, JDict([days |-> JList(<<EmptyDict, EmptyDict>>)]), FALSE),
   Response(<<>>, JDict([days |-> JList(<<JInt(1)>>)]), FALSE),
   Response(<<>>, JDict([days |-> S("ab")]), FALSE),
   Response(<<>>, JDict([days |-> JInt(5)]), FALSE),
   Response(<<>>, JDict([days |-> JDict([a |-> JInt(1)])]), FALSE),
   Response(<<>>, JDict([days |-> JList(<<JDict([dayIndex |-> S("x")])>>)]), FALSE),
   Response(<<>>, JDict([days |-> JList(<<JDict([dayIndex |-> S("4")])>>)]), FALSE),
   Response(<<>>, JDict([days |-> JList(<<JDict([day |-> JInt(3)])>>)]), FALSE),
   Response(<<>>, JDict([days |-> JList(<<JDict([dayIndex |-> JInt(0), title |-> NoStr])>>)]), FALSE),
   Response(<<>>, JDict([days |-> JList(<<JDict([dayIndex |-> JInt(-1)])>>)]), FALSE),
   Response(<<>>, JDict([days |-> JList(<<JDict([dayIndex |-> JList(<<JInt(1)>>)])>>)]), FALSE),
   Response(<<>>, OutlineOf(JInt(5), JList(<<OutlineDayOf(JNull, JInt(7), JNull, S("x"))>>)), FALSE)>>

MaxDuration == 3

\* the requests: goal and lang are str, duration_days any int (OutlineRequest
\* and CreateRoomReq put no limit on it)
OutlineRequests ==
  {OutlineReq(g, l, d) : g \in {<<>>, <<WS, WS>>, <<WS, "Angol", WS>>},
                         l \in {<<"hu">>, <<"en">>, <<"HU">>, <<>>},
                         d \in -1..MaxDuration}

InitOutline ==
  /\ ControllerIdle
  /\ ValidatorIdle
  /\ ChainIdle
  /\ RestIdle
  /\ outline_pc = "idle"
  /\ outline_req \in OutlineRequests
  /\ outline = JNull
  /\ outline_log = {}

\* generate_focus_outline up to its await
OutlineCall ==
  /\ outline_pc = "idle"
  /\ outline_pc' = "awaiting"
  /\ UNCHANGED <<ctlVars, valVars, chainVars, restVars, outline_req, outline, outline_log>>

\* the except branch: the line it prints and the fallback it returns
OutlineFallback ==
  /\ outline_pc' = "returned"
  /\ outline' = fallback_focus_outline(outline_req)
  /\ outline_log' = outline_log \cup {"Fallback outline used"}

\* the LLM call returns: the outline of its days, or the fallback
OutlineLLMReturns ==
  /\ outline_pc = "awaiting"
  /\ \E i \in 1..Len(OutlineResponses) :
       IF OutlineRaises(OutlineResponses[i]) THEN OutlineFallback
       ELSE /\ outline_pc' = "returned"
            /\ outline' = NormalOutline(OutlineData(OutlineResponses[i]), outline_req)
            /\ outline_log' = outline_log
  /\ UNCHANGED <<ctlVars, valVars, chainVars, restVars, outline_req>>

\* the LLM call raises
OutlineLLMRaises ==
  /\ outline_pc = "awaiting"
  /\ OutlineFallback
  /\ UNCHANGED <<ctlVars, valVars, chainVars, restVars, outline_req>>

NextOutline ==
  \/ OutlineCall
  \/ OutlineLLMReturns
  \/ OutlineLLMRaises

SpecOutline == InitOutline /\ [][NextOutline]_vars

\* ------------------------------------------------------------------------
\* Day normalisation: _normalize_focus_day_items (llm_client.py)
\* ------------------------------------------------------------------------
\* (item.get(key) or "").lower()
LowField(item, key) ==
  IF Truthy(Get(item, key, JNull)) THEN Lower(Get(item, key, JNull).v) ELSE <<>>

\* .lower() on a truthy value that is not a str raises AttributeError
FieldRaises(item, key) ==
  Truthy(Get(item, key, JNull)) /\ Get(item, key, JNull).t # "str"

\* one pass of the loop raises: item.get on what is no dict, or .lower()
DayItemRaises(item) ==
  IF item.t # "dict" THEN TRUE
  ELSE FieldRaises(item, "type") \/ FieldRaises(item, "practice_type")

LANGUAGE_ONLY_PRACTICE == {<<"translation">>, <<"exercise">>, <<"roleplay">>, <<"dialogue">>, <<"speaking">>}

\* type_map of the language domains
PracticeTypeMap(practice_type) ==
  CASE practice_type = <<"roleplay">> -> <<"exercise">>
    [] practice_type = <<"dialogue">> -> <<"exercise">>
    [] practice_type = <<"conversation">> -> <<"exercise">>
    [] practice_type = <<"drill">> -> <<"translation">>
    [] OTHER -> <<>>

\* DOMAIN GUARD of a non-language domain: practice_type, then type
GuardPractice(item) ==
  IF LowField(item, "practice_type") \in LANGUAGE_ONLY_PRACTICE
  THEN DSet(item, "practice_type", S("writing")) ELSE item

GuardType(item) ==
  IF LowField(item, "type") \in {<<"flashcard">>, <<"translation">>}
  THEN DSet(item, "type", S("quiz")) ELSE item

\* the type mapping of a language domain
MapPractice(item) ==
  IF PracticeTypeMap(LowField(item, "practice_type")) # <<>>
  THEN DSet(item, "practice_type", JStr(PracticeTypeMap(LowField(item, "practice_type"))))
  ELSE item

\* the item as the loop leaves it
NormalItem(item, is_language) ==
  IF is_language THEN MapPractice(item) ELSE GuardType(GuardPractice(item))

\* the has_* flags after the loop over the items as the loop left them
HasQuiz(items) ==
  \E i \in 1..Len(items) : LowField(items[i], "type") = <<"quiz">> \/ LowField(items[i], "practice_type") = <<"quiz">>
HasPractice(items, practice_type) ==
  \E i \in 1..Len(items) : LowField(items[i], "practice_type") = practice_type
HasTask(items) == \E i \in 1..Len(items) : LowField(items[i], "type") = <<"task">>

\* f"d{day_index}-{name}-auto"
StubId(day_index, name) == JStr(<<"d", GLUE, ToString(day_index), GLUE, name>>)

PracticeStub(day_index, name, practice_type, label, topic, minutes) ==
  JDict([id |-> StubId(day_index, name), type |-> S("practice"), label |-> JStr(label),
         topic |-> JStr(topic), practice_type |-> S(practice_type), estimated_minutes |-> JInt(minutes)])

PlainStub(day_index, name, item_type, label, topic) ==
  JDict([id |-> StubId(day_index, name), type |-> S(item_type), label |-> JStr(label),
         topic |-> topic, estimated_minutes |-> JInt(5)])

\* a variant that appends the stub whether or not the element is missing
StubIfAlways(missing, stub) == <<stub>>

\* one optional stub
StubIf(missing, stub) == IF missing THEN <<stub>> ELSE <<>>

\* the stubs of a language domain: exercise, translation, writing
LanguageStubs(items, day_index, is_hu) ==
  StubIf(~HasPractice(items, <<"exercise">>),
         PracticeStub(day_index, "-exercise-auto", "exercise",
                      IF is_hu THEN <<"Párbeszéd", "gyakorlat">> ELSE <<"Dialogue", "practice">>,
                      IF is_hu THEN <<"Interaktív", "párbeszéd", "AI-val">>
                      ELSE <<"Interactive", "dialogue", "with", "AI">>, 8))
  \o StubIf(~HasPractice(items, <<"translation">>),
            PracticeStub(day_index, "-translation-auto", "translation",
                         IF is_hu THEN <<"Fordítási", "gyakorlat">> ELSE <<"Translation", "practice">>,
                         IF is_hu THEN <<"Mondatok", "fordítása">> ELSE <<"Sentence", "translation">>, 6))
  \o StubIf(~HasPractice(items, <<"writing">>),
            PracticeStub(day_index, "-writing-auto", "writing",
                         IF is_hu THEN <<"Írási", "feladat">> ELSE <<"Writing", "task">>,
                         IF is_hu THEN <<"Rövid", "szöveg", "írása">>
                         ELSE <<"Write", "a", "short", "text">>, 8))

\* the stubs of any other domain: quiz, writing, task
OtherStubs(items, day_index, is_hu, title) ==
  StubIf(~HasQuiz(items),
         PlainStub(day_index, "-quiz-auto", "quiz", IF is_hu THEN <<"Kvíz">> ELSE <<"Quiz">>, title))
  \o StubIf(~HasPractice(items, <<"writing">>),
            PracticeStub(day_index, "-writing-auto", "writing",
                         IF is_hu THEN <<"Összefoglaló">> ELSE <<"Summary">>,
                         IF is_hu THEN <<"Írd", "le", "a", "tanultakat">>
                         ELSE <<"Summarize", "what", "you", "learned">>, 5))
  \o StubIf(~HasTask(items),
            PlainStub(day_index, "-task-auto", "task",
                      IF is_hu THEN <<"Mai", "feladat">> ELSE <<"Today's", "task">>,
                      JStr(IF is_hu THEN <<"Alkalmazd", "a", "tanultakat">>
                           ELSE <<"Apply", "what", "you", "learned">>)))

\* (domain or "other").lower() in ("language_learning", "language")
DayIsLanguage(domain) ==
  (IF Truthy(domain) THEN Lower(domain.v) ELSE <<"other">>) \in {<<"language_learning">>, <<"language">>}

\* items = data.get("items", [])
DayItems(data) == Get(data, "items", JList(<<>>))

\* the call raises: data.get on what is no dict, the loop or the append on
\* items that are no list, or a pass of the loop
NormalizeDayRaises(data) ==
  IF data.t # "dict" THEN TRUE
  ELSE IF DayItems(data).t # "list" THEN TRUE
  ELSE \E i \in 1..Len(DayItems(data).v) : DayItemRaises(DayItems(data).v[i])

\* the items after the loop
LoopedItems(data, domain) ==
  [i \in 1..Len(DayItems(data).v) |-> NormalItem(DayItems(data).v[i], DayIsLanguage(domain))]

\* _normalize_focus_day_items(data, day_index, is_hu, domain=domain), for a
\* call that does not raise
normalize_focus_day_items(data, day_index, is_hu, domain) ==
  DSet(data, "items",
       JList(LoopedItems(data, domain)
             \o (IF DayIsLanguage(domain)
                 THEN LanguageStubs(LoopedItems(data, domain), day_index, is_hu)
                 ELSE OtherStubs(LoopedItems(data, domain), day_index, is_hu,
                                 Get(data, "title", JStr(<<"Napi", "anyag">>))))))

DayItemOf(item_type, practice_type) ==
  JDict([id |-> S("d1-x"), type |-> item_type, practice_type |-> practice_type])

\* the items the LLM can write into a day
DayItemPool ==
  <<JDict([id |-> S("d1-lesson-1"), type |-> S("lesson"), label |-> S("Köszönések")]),
    JDict([id |-> S("d1-quiz-1"), type |-> S("quiz")]),
    JDict([id |-> S("d1-task-1"), type |-> S("TASK")]),
    JDict([id |-> S("d1-flashcard-1"), type |-> S("flashcard")]),
    DayItemOf(S("translation"), JNull),
    DayItemOf(S("practice"), S("exercise")),
    DayItemOf(S("practice"), S("Translation")),
    DayItemOf(S("practice"), S("writing")),
    DayItemOf(S("practice"), JStr(<<WS, "writing", WS>>)),
    DayItemOf(S("practice"), S("roleplay")),
    DayItemOf(S("practice"), S("drill")),
    DayItemOf(S("practice"), S("speaking")),
    DayItemOf(S("task"), S("quiz")),
    DayItemOf(JInt(0), JList(<<>>)),
    DayItemOf(JInt(5), JNull),
    DayItemOf(S("practice"), JList(<<S("writing")>>)),
    S("lesson"),
    JNull>>

MaxItems == 2

\* the item lists of at most MaxItems items of the pool
DayItemLists ==
  UNION {[1..n -> 1..Len(DayItemPool)] : n \in 0..MaxItems}

\* the days the parse can hand over: an object with or without items, with
\* items that are no list, or a JSON value that is no object
DayOf(picks) == JDict([title |-> S("Alapok"), items |-> JList([i \in 1..Len(picks) |-> DayItemPool[picks[i]]])])

MalformedDays ==
  <<JDict([title |-> S("Alapok")]), JDict([items |-> JNull]),
    JDict([items |-> EmptyDict]), JDict([items |-> NoStr]), JDict([items |-> JInt(3)]),
    JList(<<JInt(1)>>)>>

DayDomains == <<S("language"), S("Language_Learning"), S("fitness"), JNull>>

NormReq(data, day_index, is_hu, domain) ==
  [data |-> data, day_index |-> day_index, is_hu |-> is_hu, domain |-> domain]

InitNormalize ==
  /\ ControllerIdle
  /\ ValidatorIdle
  /\ ChainIdle
  /\ OutlineIdle
  /\ RestIdleExcept("normalize")
  /\ norm_pc = "idle"
  /\ \E d \in 1..Len(DayDomains), is_hu \in BOOLEAN :
       \/ \E picks \in DayItemLists : norm_req = NormReq(DayOf(picks), 1, is_hu, DayDomains[d])
       \/ \E m \in 1..Len(MalformedDays) : norm_req = NormReq(MalformedDays[m], 1, is_hu, DayDomains[d])
  /\ norm_day = JNull
  /\ norm_prev = JNull

\* the unchanged variables of a step of this system
NormFrame == UNCHANGED <<ctlVars, valVars, chainVars, outlineVars, norm_req, tasksVars, itemVars, planVars>>

\* generate_focus_day normalises the day the LLM wrote
NormalizeDay ==
  /\ norm_pc = "idle"
  /\ ~NormalizeDayRaises(norm_req.data)
  /\ norm_pc' = "once"
  /\ norm_day' = normalize_focus_day_items(norm_req.data, norm_req.day_index, norm_req.is_hu, norm_req.domain)
  /\ norm_prev' = norm_prev
  /\ NormFrame

\* an AttributeError or a TypeError leaves the function
NormalizeDayRaise ==
  /\ norm_pc = "idle"
  /\ NormalizeDayRaises(norm_req.data)
  /\ norm_pc' = "raised"
  /\ UNCHANGED <<norm_day, norm_prev>>
  /\ NormFrame

\* the normalised day is normalised again
NormalizeAgain ==
  /\ norm_pc = "once"
  /\ ~NormalizeDayRaises(norm_day)
  /\ norm_pc' = "twice"
  /\ norm_prev' = norm_day
  /\ norm_day' = normalize_focus_day_items(norm_day, norm_req.day_index, norm_req.is_hu, norm_req.domain)
  /\ NormFrame

NextNormalize ==
  \/ NormalizeDay
  \/ NormalizeDayRaise
  \/ NormalizeAgain

SpecNormalize == InitNormalize /\ [][NextNormalize]_vars

\* ------------------------------------------------------------------------
\* The practice items of a room day: fetch_day_tasks (focusroom_api.py)
\* ------------------------------------------------------------------------
LANGUAGE_DAY_ITEMS ==
  <<[kind |-> "lesson", label |-> <<"Lecke">>], [kind |-> "quiz", label |-> <<"Kvíz">>],
    [kind |-> "translation", label |-> <<"Fordítás">>], [kind |-> "writing", label |-> <<"Írás">>]>>

SMART_DAY_ITEMS ==
  <<[kind |-> "smart_lesson", label |-> <<"Lecke">>], [kind |-> "quiz", label |-> <<"Kvíz">>],
    [kind |-> "writing", label |-> <<"Gondolkodás">>]>>

\* templates[1:] of the domain's templates
PracticeTemplates(domain) ==
  Tail(IF domain = <<"language">> THEN LANGUAGE_DAY_ITEMS ELSE SMART_DAY_ITEMS)

\* _fallback_content(kind)
fallback_content(task_kind) ==
  CASE task_kind = "quiz" ->
         JDict([questions |-> JList(<<JDict([question |-> JStr(<<"Mi", "a", "helyes", "válasz?">>),
                                              options |-> JList(<<S("A"), S("B"), S("C"), S("D")>>),
                                              correct_index |-> JInt(0),
                                              explanation |-> JStr(<<"Próbáld", "újra", "a", "generálást.">>)])>>)])
    [] task_kind = "translation" ->
         JDict([sentences |-> JList(<<JDict([source |-> S("Hello"), target_lang |-> S("hu"),
                                              hint |-> S("Köszönés")])>>)])
    [] task_kind = "writing" ->
         JDict([prompt |-> JStr(<<"Írj", "egy", "rövid", "szöveget", "a", "mai", "témáról.">>),
                word_count_target |-> JInt(50)])
    [] OTHER ->
         JDict([title |-> S("Tartalom"),
                summary |-> JStr(<<"A", "tartalom", "generálása", "sikertelen", "volt.">>)])

\* the characters of a string, written one after the other
RECURSIVE Glued(_)
Glued(chars) ==
  IF chars = <<>> THEN <<>>
  ELSE IF Len(chars) = 1 THEN chars
  ELSE <<Head(chars), GLUE>> \o Glued(Tail(chars))

\* f"room-{req.room_id[:8]}-d{req.day_index}-{tmpl['kind']}-{idx}"
TaskItemId(req, tmpl, idx) ==
  JStr(Glued(<<"room-">> \o SubSeq(req.room_id, 1, IF Len(req.room_id) < 8 THEN Len(req.room_id) ELSE 8)
             \o <<"-d", ToString(req.day_index), "-", tmpl.kind, "-", ToString(idx)>>))

\* what gen_task returns for what its generate_focus_item call did
TaskOf(req, tmpl, idx, llm) ==
  JDict([id |-> TaskItemId(req, tmpl, idx), kind |-> S(tmpl.kind), title |-> JStr(tmpl.label),
         content |-> IF llm.raised THEN fallback_content(tmpl.kind) ELSE llm.value])

\* a variant of the gather that takes the results as the tasks finish
ResultsAsCompleted(req, llm, order) ==
  [n \in 1..Len(order) |-> TaskOf(req, PracticeTemplates(req.domain)[order[n]], order[n], llm[order[n]])]

\* asyncio.gather: the results in the order of the awaitables
GatherResults(req, llm, order) ==
  [i \in 1..Len(PracticeTemplates(req.domain)) |-> TaskOf(req, PracticeTemplates(req.domain)[i], i, llm[i])]

NoLLM == [raised |-> FALSE, value |-> JNull]

\* what one generate_focus_item call with max_retries=0 can do: return the
\* LLM's item, return its own fallback item, or raise
GenOutcomes(task_kind) ==
  <<[raised |-> FALSE, value |-> JDict([kind |-> S(task_kind), title |-> S("Köszönések"),
                                        content |-> JDict([generated |-> JBool(TRUE)])])],
    [raised |-> FALSE, value |-> JDict([kind |-> S(task_kind), title |-> S("Köszönések"),
                                        content |-> EmptyDict, validation_warning |-> S("fallback")])],
    [raised |-> TRUE, value |-> S("RuntimeError")],
    [raised |-> TRUE, value |-> S("AttributeError")]>>

RoomIds == {<<"4", "f", "2", "a", "9", "c", "1", "e", "-", "7", "b">>, <<"r", "1">>}
TaskDomains == {<<"language">>, <<"smart_learning">>, <<>>}

InitTasks ==
  /\ ControllerIdle
  /\ ValidatorIdle
  /\ ChainIdle
  /\ OutlineIdle
  /\ RestIdleExcept("tasks")
  /\ tasks_pc = "idle"
  /\ \E room_id \in RoomIds, day_index \in 1..2, dom \in TaskDomains, available \in BOOLEAN :
       \* domain = req.domain or "language"
       tasks_req = [room_id |-> room_id, day_index |-> day_index,
                    domain |-> IF dom = <<>> THEN <<"language">> ELSE dom,
                    llm_available |-> available]
  /\ gen_pc = <<>>
  /\ gen_llm = <<>>
  /\ gen_order = <<>>
  /\ tasks_resp = JNull

TasksFrame == UNCHANGED <<ctlVars, valVars, chainVars, outlineVars, normVars, tasks_req, itemVars, planVars>>

\* LLM_AVAILABLE is false: HTTP 503
TasksRefused ==
  /\ tasks_pc = "idle"
  /\ ~tasks_req.llm_available
  /\ tasks_pc' = "refused"
  /\ UNCHANGED <<gen_pc, gen_llm, gen_order, tasks_resp>>
  /\ TasksFrame

\* the gather wraps one gen_task per practice template
TasksGather ==
  /\ tasks_pc = "idle"
  /\ tasks_req.llm_available
  /\ tasks_pc' = "gathering"
  /\ gen_pc' = [i \in 1..Len(PracticeTemplates(tasks_req.domain)) |-> "new"]
  /\ gen_llm' = [i \in 1..Len(PracticeTemplates(tasks_req.domain)) |-> NoLLM]
  /\ UNCHANGED <<gen_order, tasks_resp>>
  /\ TasksFrame

\* the event loop runs the gen_tasks in the order of their creation, each up
\* to the await in its generate_focus_item call
GenStart(i) ==
  /\ tasks_pc = "gathering"
  /\ gen_pc[i] = "new"
  /\ \A j \in 1..(i - 1) : gen_pc[j] # "new"
  /\ gen_pc' = [gen_pc EXCEPT ![i] = "awaiting"]
  /\ UNCHANGED <<tasks_pc, gen_llm, gen_order, tasks_resp>>
  /\ TasksFrame

\* the generate_focus_item call of gen_task i returns
GenReturns(i) ==
  /\ tasks_pc = "gathering"
  /\ gen_pc[i] = "awaiting"
  /\ \E o \in 1..Len(GenOutcomes(PracticeTemplates(tasks_req.domain)[i].kind)) :
       /\ ~GenOutcomes(PracticeTemplates(tasks_req.domain)[i].kind)[o].raised
       /\ gen_llm' = [gen_llm EXCEPT ![i] = GenOutcomes(PracticeTemplates(tasks_req.domain)[i].kind)[o]]
  /\ gen_pc' = [gen_pc EXCEPT ![i] = "done"]
  /\ gen_order' = Append(gen_order, i)
  /\ UNCHANGED <<tasks_pc, tasks_resp>>
  /\ TasksFrame

\* the generate_focus_item call of gen_task i raises; gen_task catches it
GenRaises(i) ==
  /\ tasks_pc = "gathering"
  /\ gen_pc[i] = "awaiting"
  /\ \E o \in 1..Len(GenOutcomes(PracticeTemplates(tasks_req.domain)[i].kind)) :
       /\ GenOutcomes(PracticeTemplates(tasks_req.domain)[i].kind)[o].raised
       /\ gen_llm' = [gen_llm EXCEPT ![i] = GenOutcomes(PracticeTemplates(tasks_req.domain)[i].kind)[o]]
  /\ gen_pc' = [gen_pc EXCEPT ![i] = "done"]
  /\ gen_order' = Append(gen_order, i)
  /\ UNCHANGED <<tasks_pc, tasks_resp>>
  /\ TasksFrame

\* every gen_task is done: the gather returns and the handler responds
TasksReturn ==
  /\ tasks_pc = "gathering"
  /\ \A i \in 1..Len(gen_pc) : gen_pc[i] = "done"
  /\ tasks_pc' = "returned"
  /\ tasks_resp' = JDict([ok |-> JBool(TRUE), tasks |-> JList(GatherResults(tasks_req, gen_llm, gen_order))])
  /\ UNCHANGED <<gen_pc, gen_llm, gen_order>>
  /\ TasksFrame

NextTasks ==
  \/ TasksRefused
  \/ TasksGather
  \/ \E i \in DOMAIN gen_pc : GenStart(i)
  \/ \E i \in DOMAIN gen_pc : GenReturns(i)
  \/ \E i \in DOMAIN gen_pc : GenRaises(i)
  \/ TasksReturn

SpecTasks == InitTasks /\ [][NextTasks]_vars

\* ------------------------------------------------------------------------
\* The stored content of an item: generate_item_content (focus_api.py)
\* ------------------------------------------------------------------------
MaxRequests == 3
Requests == 1..MaxRequests

LEARNING_TASK_TYPES == {"lesson", "quiz", "single_select"}

\* has_real_content of the stored content
HasRealContent(existing) ==
  \/ Truthy(Get(existing, "kind", JNull))
  \/ Truthy(Get(existing, "schema_version", JNull))
  \/ /\ Get(existing, "content", JNull).t = "dict"
     /\ \/ Truthy(Get(existing.v["content"], "summary", JNull))
        \/ Truthy(Get(existing.v["content"], "vocabulary_table", JNull))
        \/ Truthy(Get(existing.v["content"], "questions", JNull))

\* DB CACHE: the stored content is returned as it is
CacheHit(row) ==
  IF ~(row.content.t = "dict" /\ Truthy(row.content)) THEN FALSE
  ELSE IF ~HasRealContent(row.content) THEN FALSE
  ELSE IF row.language /\ row.kind = "content"
       THEN ContentTypeOf(row.content) = S("language_lesson")
  ELSE IF row.language /\ row.kind \in {"quiz", "translation", "roleplay", "writing", "cards"}
       THEN Get(row.content, "chain_version", JNull) = S("lesson_v2")
  ELSE TRUE

\* normalized_type not in allowed_types, in a plan of mode learning
TypeRefused(row) == (IF row.type = "single_select" THEN "quiz" ELSE row.type) \notin LEARNING_TASK_TYPES

\* the chaining block is entered for the row
RowChains(row) == ChainingApplies(row.language, row.kind) \/ (row.language /\ row.type \in PRACTICE_KINDS)

\* the item one generation writes: the text of generation r under the
\* content type of the lesson, or under the chain marker of the practice item
ItemOfGeneration(row_kind, content_type, chained, r) ==
  LET inner == IF content_type = <<>> THEN JDict([body_md |-> JStr(<<"text", ToString(r)>>)])
               ELSE JDict([content_type |-> JStr(content_type), body_md |-> JStr(<<"text", ToString(r)>>)])
      item == JDict([schema_version |-> S("1.0"), kind |-> S(row_kind),
                     title |-> JStr(<<"title", ToString(r)>>), content |-> inner])
  IN IF chained THEN DSet(item, "chain_version", S("lesson_v2")) ELSE item

\* what generate_focus_item can return for the row in generation r
GeneratedContents(row, chained, r) ==
  IF row.kind = "content"
  THEN IF row.language
       THEN <<ItemOfGeneration("content", <<"language_lesson">>, FALSE, r),
              ItemOfGeneration("content", <<"language_nonlatin_beginner">>, FALSE, r)>>
       ELSE <<ItemOfGeneration("content", <<>>, FALSE, r)>>
  ELSE <<ItemOfGeneration(row.kind, <<>>, chained, r)>>

\* a variant of the update that keeps the title already stored
SaveFields(stored, generated) ==
  IF stored.t # "dict" THEN generated ELSE DSet(generated, "title", Get(stored, "title", JNull))

\* update({"content": content}).eq("id", item["id"]): the column is replaced
SaveContent(stored, generated) == generated

NoItemResponse == [status |-> "none", content |-> JNull, cached |-> FALSE]

\* the rows of a plan of mode learning
ItemRows ==
  {[type |-> "lesson", kind |-> "content", language |-> TRUE, content |-> JNull],
   [type |-> "lesson", kind |-> "content", language |-> FALSE, content |-> JNull],
   [type |-> "quiz", kind |-> "quiz", language |-> TRUE, content |-> JNull],
   [type |-> "quiz", kind |-> "quiz", language |-> FALSE, content |-> JNull],
   [type |-> "quiz", kind |-> "translation", language |-> TRUE, content |-> JNull],
   [type |-> "single_select", kind |-> "quiz", language |-> FALSE, content |-> JNull],
   [type |-> "practice", kind |-> "writing", language |-> TRUE, content |-> JNull]}

InitItem ==
  /\ ControllerIdle
  /\ ValidatorIdle
  /\ ChainIdle
  /\ OutlineIdle
  /\ RestIdleExcept("item")
  /\ item_row \in ItemRows
  /\ req_pc = [r \in Requests |-> "new"]
  /\ req_seen = [r \in Requests |-> JNull]
  /\ req_chained = [r \in Requests |-> FALSE]
  /\ req_resp = [r \in Requests |-> NoItemResponse]
  /\ req_llm = [r \in Requests |-> 0]
  /\ req_wrote = [r \in Requests |-> FALSE]
  /\ last_writer = 0
  /\ overlap = FALSE

ItemFrame == UNCHANGED <<ctlVars, valVars, chainVars, outlineVars, normVars, tasksVars, planVars>>

\* request r reads the row and finds content the cache check accepts
ItemCacheHit(r) ==
  /\ req_pc[r] = "new"
  /\ CacheHit(item_row)
  /\ req_pc' = [req_pc EXCEPT ![r] = "done"]
  /\ req_seen' = [req_seen EXCEPT ![r] = item_row.content]
  /\ req_resp' = [req_resp EXCEPT ![r] = [status |-> "ok", content |-> item_row.content, cached |-> TRUE]]
  /\ UNCHANGED <<item_row, req_chained, req_llm, req_wrote, last_writer, overlap>>
  /\ ItemFrame

\* no cache hit, and the type is not one of the plan's mode: HTTP 409
ItemRefused(r) ==
  /\ req_pc[r] = "new"
  /\ ~CacheHit(item_row)
  /\ TypeRefused(item_row)
  /\ req_pc' = [req_pc EXCEPT ![r] = "done"]
  /\ req_seen' = [req_seen EXCEPT ![r] = item_row.content]
  /\ req_resp' = [req_resp EXCEPT ![r] = [status |-> "409", content |-> JNull, cached |-> FALSE]]
  /\ UNCHANGED <<item_row, req_chained, req_llm, req_wrote, last_writer, overlap>>
  /\ ItemFrame

\* no cache hit: the handler goes through the chaining, with or without
\* lesson context at its end, and awaits generate_focus_item for the item
ItemGenerationStarts(r) ==
  /\ req_pc[r] = "new"
  /\ ~CacheHit(item_row)
  /\ ~TypeRefused(item_row)
  /\ req_pc' = [req_pc EXCEPT ![r] = "generating"]
  /\ req_seen' = [req_seen EXCEPT ![r] = item_row.content]
  /\ \E chained \in BOOLEAN :
       /\ chained => RowChains(item_row)
       /\ req_chained' = [req_chained EXCEPT ![r] = chained]
  /\ req_llm' = [req_llm EXCEPT ![r] = 1]
  /\ overlap' = (overlap \/ \E q \in Requests : q # r /\ req_pc[q] = "generating")
  /\ UNCHANGED <<item_row, req_resp, req_wrote, last_writer>>
  /\ ItemFrame

\* generate_focus_item returns: the item is saved (or the save fails, which
\* is logged) and returned
ItemContentReturned(r) ==
  /\ req_pc[r] = "generating"
  /\ \E g \in 1..Len(GeneratedContents(item_row, req_chained[r], r)), saved \in BOOLEAN :
       /\ item_row' = IF saved
                      THEN [item_row EXCEPT !.content = SaveContent(item_row.content, GeneratedContents(item_row, req_chained[r], r)[g])]
                      ELSE item_row
       /\ last_writer' = IF saved THEN r ELSE last_writer
       /\ req_wrote' = [req_wrote EXCEPT ![r] = saved]
       /\ req_resp' = [req_resp EXCEPT ![r] = [status |-> "ok", content |-> GeneratedContents(item_row, req_chained[r], r)[g], cached |-> FALSE]]
  /\ req_pc' = [req_pc EXCEPT ![r] = "done"]
  /\ UNCHANGED <<req_seen, req_chained, req_llm, overlap>>
  /\ ItemFrame

\* generate_focus_item raises: HTTP 500, nothing is written
ItemContentFails(r) ==
  /\ req_pc[r] = "generating"
  /\ req_pc' = [req_pc EXCEPT ![r] = "done"]
  /\ req_resp' = [req_resp EXCEPT ![r] = [status |-> "500", content |-> JNull, cached |-> FALSE]]
  /\ UNCHANGED <<item_row, req_seen, req_chained, req_llm, req_wrote, last_writer, overlap>>
  /\ ItemFrame

NextItem ==
  \/ \E r \in Requests : ItemCacheHit(r)
  \/ \E r \in Requests : ItemRefused(r)
  \/ \E r \in Requests : ItemGenerationStarts(r)
  \/ \E r \in Requests : ItemContentReturned(r)
  \/ \E r \in Requests : ItemContentFails(r)

SpecItem == InitItem /\ [][NextItem]_vars

\* ------------------------------------------------------------------------
\* The days of a plan: start_day and complete_day (focus_api.py)
\* ------------------------------------------------------------------------
MaxDate == 3
MaxPlans == 2
DaysPerPlan == 2
Plans == 1..MaxPlans

\* today_local_iso(): the calendar date in Budapest
Today(at) == at.date

\* datetime.utcnow().isoformat()[:10]: between local midnight and the hour
\* at which UTC reaches it, UTC is on the date before
UtcDate(at) == IF at.early THEN at.date - 1 ELSE at.date

\* a focus_days row: started_at and completed_at as the date part of the UTC
\* stamp (0 for null), and the local dates on which they were written
NoStamp == 0
NewDay == [started_at |-> NoStamp, completed_at |-> NoStamp, started_on |-> 0, completed_on |-> 0]

InProgress(d) == d.started_at # NoStamp /\ d.completed_at = NoStamp
Pending(d) == d.started_at = NoStamp /\ d.completed_at = NoStamp

\* completed_at[:10] == today
StampedToday(stamp, today) == stamp # NoStamp /\ stamp = today

\* a variant that takes any stamp for today's
StampedAnyDate(stamp, today) == stamp # NoStamp

\* started_at[:10] == today, of complete_day
StartedToday(stamp, today) == StampedToday(stamp, today)

\* the loop of start_day over the days in the order of day_index
CompletedToday(ds, today) == {i \in 1..Len(ds) : StampedToday(ds[i].completed_at, today)}
InProgressDays(ds) == {i \in 1..Len(ds) : InProgress(ds[i])}
PendingDays(ds) == {i \in 1..Len(ds) : Pending(ds[i])}

\* a variant that keeps the last pending day
LastPending(ds) == CHOOSE i \in PendingDays(ds) : \A j \in PendingDays(ds) : j <= i

\* next_pending: the first day neither started nor completed
NextPending(ds) == CHOOSE i \in PendingDays(ds) : \A j \in PendingDays(ds) : i <= j

\* the last day of a set of days, the one a loop over the days keeps
LastOf(days) == CHOOSE i \in days : \A j \in days : j <= i

\* the day start_day returns: the last day the loop kept as in_progress or
\* as completed_today, the day it starts, None (0) when all are completed
ReturnedDay(ds, today) ==
  IF InProgressDays(ds) # {} THEN LastOf(InProgressDays(ds))
  ELSE IF CompletedToday(ds, today) # {} THEN LastOf(CompletedToday(ds, today))
  ELSE IF PendingDays(ds) = {} THEN 0
  ELSE NextPending(ds)

\* what start_day answers on the days of the plan
StartStatus(ds, today) ==
  IF InProgressDays(ds) # {} THEN "in_progress"
  ELSE IF CompletedToday(ds, today) # {} THEN "already_completed_today"
  ELSE IF PendingDays(ds) = {} THEN "done"
  ELSE "started"

\* what complete_day answers for day i of the plan
CompleteStatus(ds, i, today) ==
  IF i \notin 1..Len(ds) THEN "404"
  ELSE IF ds[i].completed_at # NoStamp THEN "already_completed"
  ELSE IF ds[i].started_at = NoStamp THEN "locked"
  ELSE IF ~StartedToday(ds[i].started_at, today) THEN "not_started_today"
  ELSE IF \E j \in 1..Len(ds) : j # i /\ StampedToday(ds[j].completed_at, today) THEN "other_completed_today"
  ELSE "day_completed"

\* a variant without the check of last_streak_date
StreakRowsEveryTime(rs, today) ==
  IF rs = <<>> THEN <<[streak |-> 1, last_streak_date |-> today]>>
  ELSE <<[streak |-> rs[1].streak + 1, last_streak_date |-> today]>>

\* the streak update of complete_day on the rows the select returned
StreakRows(rs, today) ==
  IF rs = <<>> THEN <<[streak |-> 1, last_streak_date |-> today]>>
  ELSE IF rs[1].last_streak_date = today THEN rs
  ELSE <<[streak |-> rs[1].streak + 1, last_streak_date |-> today]>>

InitPlan ==
  /\ ControllerIdle
  /\ ValidatorIdle
  /\ ChainIdle
  /\ OutlineIdle
  /\ RestIdleExcept("plan")
  /\ clock = [date |-> 1, early |-> FALSE]
  /\ plan_days = [p \in Plans |-> [i \in 1..DaysPerPlan |-> NewDay]]
  /\ stats_rows = <<>>
  /\ last_call = [op |-> "none", plan |-> 0, day |-> 0, status |-> "none", overlapped |-> FALSE]
  /\ day_reqs = <<>>

PlanFrame == UNCHANGED <<ctlVars, valVars, chainVars, outlineVars, normVars, tasksVars, itemVars>>

\* the clock after the next change of date: UTC reaches the local date, or
\* local midnight passes
Later(at) == IF at.early THEN [at EXCEPT !.early = FALSE] ELSE [date |-> at.date + 1, early |-> TRUE]

\* the days of a plan after start_day: started_at = utcnow() on next_pending
AfterStart(ds, at) ==
  IF StartStatus(ds, Today(at)) = "started"
  THEN [ds EXCEPT ![NextPending(ds)] = [@ EXCEPT !.started_at = UtcDate(at), !.started_on = Today(at)]]
  ELSE ds

\* the days of a plan after complete_day for day i: completed_at = utcnow()
AfterComplete(ds, i, at) ==
  IF CompleteStatus(ds, i, Today(at)) = "day_completed"
  THEN [ds EXCEPT ![i] = [@ EXCEPT !.completed_at = UtcDate(at), !.completed_on = Today(at)]]
  ELSE ds

\* time passes
Tick ==
  /\ clock.early \/ clock.date < MaxDate
  /\ clock' = Later(clock)
  /\ last_call' = [op |-> "tick", plan |-> 0, day |-> 0, status |-> "none", overlapped |-> FALSE]
  /\ UNCHANGED <<plan_days, stats_rows, day_reqs>>
  /\ PlanFrame

\* POST /start-day for plan p
StartDay(p) ==
  /\ last_call' = [op |-> "start", plan |-> p,
                   day |-> ReturnedDay(plan_days[p], Today(clock)),
                   status |-> StartStatus(plan_days[p], Today(clock)),
                   overlapped |-> FALSE]
  /\ plan_days' = [plan_days EXCEPT ![p] = AfterStart(plan_days[p], clock)]
  /\ UNCHANGED <<clock, stats_rows, day_reqs>>
  /\ PlanFrame

\* complete_day from the return of get_user_id to its own return: no await
\* in between, so no other request runs in between
CompleteDayBody(p, i, with_others) ==
  /\ last_call' = [op |-> "complete", plan |-> p, day |-> i,
                   status |-> CompleteStatus(plan_days[p], i, Today(clock)),
                   overlapped |-> with_others]
  /\ plan_days' = [plan_days EXCEPT ![p] = AfterComplete(plan_days[p], i, clock)]
  /\ stats_rows' = IF CompleteStatus(plan_days[p], i, Today(clock)) = "day_completed"
                   THEN StreakRows(stats_rows, Today(clock))
                   ELSE stats_rows
  /\ UNCHANGED clock
  /\ PlanFrame

\* POST /complete-day for day i of plan p, with no other request in flight
CompleteDay(p, i) ==
  /\ CompleteDayBody(p, i, FALSE)
  /\ UNCHANGED day_reqs

NextPlan ==
  \/ Tick
  \/ \E p \in Plans : StartDay(p)
  \/ \E p \in Plans, i \in 1..(DaysPerPlan + 1) : CompleteDay(p, i)

SpecPlan == InitPlan /\ [][NextPlan]_vars

\* ------------------------------------------------------------------------
\* Concurrent complete-day requests of one user
\* ------------------------------------------------------------------------
MaxDayRequests == 2
DayRequests == 1..MaxDayRequests
\* overlapped: another request was waiting while this one was
NoDayRequest == [pc |-> "none", plan |-> 0, day |-> 0, overlapped |-> FALSE]
Waiting(reqs) == {r \in DOMAIN reqs : reqs[r].pc = "get_user_id"}

InitStreak ==
  /\ ControllerIdle
  /\ ValidatorIdle
  /\ ChainIdle
  /\ OutlineIdle
  /\ RestIdleExcept("plan")
  /\ clock = [date |-> 1, early |-> FALSE]
  /\ plan_days = [p \in Plans |-> [i \in 1..DaysPerPlan |-> NewDay]]
  /\ stats_rows = <<>>
  /\ last_call = [op |-> "none", plan |-> 0, day |-> 0, status |-> "none", overlapped |-> FALSE]
  /\ day_reqs = [r \in DayRequests |-> NoDayRequest]

\* a POST /complete-day arrives and awaits get_user_id(request)
DayRequestArrives(r, p, i) ==
  /\ day_reqs[r].pc = "none"
  /\ day_reqs' = [q \in DayRequests |->
                    IF q = r THEN [pc |-> "get_user_id", plan |-> p, day |-> i, overlapped |-> Waiting(day_reqs) # {}]
                    ELSE IF q \in Waiting(day_reqs) THEN [day_reqs[q] EXCEPT !.overlapped = TRUE]
                    ELSE day_reqs[q]]
  /\ UNCHANGED <<clock, plan_days, stats_rows, last_call>>
  /\ PlanFrame

\* get_user_id returns to request r, which runs to its end
DayRequestCompletes(r) ==
  /\ day_reqs[r].pc = "get_user_id"
  /\ CompleteDayBody(day_reqs[r].plan, day_reqs[r].day, day_reqs[r].overlapped)
  /\ day_reqs' = [day_reqs EXCEPT ![r] = NoDayRequest]

NextStreak ==
  \/ Tick
  \/ \E p \in Plans : StartDay(p)
  \/ \E r \in DayRequests, p \in Plans, i \in 1..DaysPerPlan : DayRequestArrives(r, p, i)
  \/ \E r \in DayRequests : DayRequestCompletes(r)

SpecStreak == InitStreak /\ [][NextStreak]_vars

\* ------------------------------------------------------------------------
\* Claims on the Retry/Fallback Controller (Spec)
\* ------------------------------------------------------------------------
\* the kind the arguments of the caller's call resolve to
CallKind == ResolveKind(call.item_type, call.practice_type, call.domain)

\* validation.require_interaction of an item
RequireInteraction(item) ==
  Get(Get(item, "validation", EmptyDict), "require_interaction", JNull)

\* an item made by _create_fallback_item
IsFallbackItem(item) ==
  /\ item.t = "dict"
  /\ Has(item, "idempotency_key")
  /\ Head(item.v["idempotency_key"].v) = "fallback-"

\* the word the LLM wrote in the kind field of the text, <<>> when it wrote none
WrittenKind == IF text.obj.t = "dict" THEN Get(text.obj, "kind", JStr(<<>>)).v ELSE <<>>

\* C1: every item generate_focus_item returns, an accepted LLM item or a
\* fallback item of any kind, passes _validate_focus_item with (True, "").
C1_ReturnedItemValid == pc = "returned" => validate_focus_item(result) = VOk

\* C2: a call with max_retries = N makes at most N + 1 LLM attempts whatever
\* the LLM returns; every retry raises retry_count by exactly one, so the
\* attempt in flight is attempt retry_count + 1, and retry_count never
\* passes max_retries.
C2_AttemptsBounded ==
  /\ attempts <= call.max_retries + 1
  /\ retry_count <= call.max_retries
  /\ (pc \in {"awaiting", "received"} => attempts = retry_count + 1)

C2_Witness ==
  /\ pc = "returned"
  /\ call.max_retries = MaxRetries
  /\ attempts = MaxRetries + 1
  /\ outcome.o = "invalid"

\* C3: generate_focus_item has no error terminal state: whatever the LLM
\* returns (an error text, nothing, malformed JSON, an item that breaks the
\* schema) the call never ends by raising.
C3_NeverRaises == pc # "raised"

\* C4: a response classified as an LLM error on an attempt with
\* retry_count < max_retries is followed by a new attempt with retry_count + 1.
C4_LLMErrorRetried ==
  [][(pc = "received" /\ outcome.o = "llm_error" /\ retry_count < call.max_retries)
       => (pc' = "awaiting" /\ retry_count' = retry_count + 1)]_vars

\* C5: with max_retries = 0 and a text with no object in it, the call makes
\* one attempt and returns exactly the fallback item, which is a function of
\* (kind, topic, label, lang, minutes, domain) alone: it is the item of any
\* other process for these inputs, and a repeated call returns an equal item,
\* idempotency_key included.
C5_FallbackDeterministic ==
  (pc = "returned" /\ call.max_retries = 0 /\ outcome.o = "parse_fail") =>
    /\ attempts = 1
    /\ \A sd \in Seeds :
         result = create_fallback_item(kind, call.topic, call.label, cur.lang,
                                       call.minutes, cur.domain, sd)
    /\ (IsFallbackItem(prev) => result = prev)

\* C6: validation.require_interaction of every returned item is False if and
\* only if its kind is content, briefing or feedback, whatever the LLM wrote.
C6_RequireInteraction ==
  pc = "returned" =>
    /\ RequireInteraction(result).t = "bool"
    /\ (RequireInteraction(result) = JBool(FALSE) <=> kind \in READ_ONLY_KINDS)

C6_Witness ==
  /\ pc = "returned"
  /\ outcome.o = "accept"
  /\ Has(text.obj, "validation")
  /\ RequireInteraction(text.obj) # RequireInteraction(result)

\* C7: the kind field of every returned item is the kind resolved from the
\* caller's (item_type, practice_type, domain) before the LLM call, whatever
\* kind the LLM wrote, after any number of retries and on the fallback path.
C7_KindResolved ==
  pc = "returned" => Get(result, "kind", JNull) = JStr(<<CallKind>>)

C7_Witness ==
  /\ pc = "returned"
  /\ outcome.o = "accept"
  /\ retry_count > 0
  /\ WrittenKind # <<>>
  /\ WrittenKind # <<CallKind>>
  /\ Get(result, "kind", JNull) = JStr(<<CallKind>>)

\* ------------------------------------------------------------------------
\* Claims on kind resolution (SpecKind)
\* ------------------------------------------------------------------------
kDomain == CoerceStr(call.domain, <<"other">>)
kItemType == CoerceStr(call.item_type, <<"lesson">>)
kPractice == CoercePractice(call.practice_type)

\* C8: kind resolution is total: every argument triple, including unknown, empty,
\* differently-cased, padded and missing values, resolves to a member of the
\* fixed Kind set (never None, never an error value).
C8_KindTotal == pc = "awaiting" => kind \in VALID_KINDS

C8_Witness ==
  /\ pc = "awaiting"
  /\ call.item_type = JNull
  /\ call.practice_type = JStr(<<WS, "Exercise">>)
  /\ call.domain = JStr(<<>>)
  /\ kind = "roleplay"

\* C9: in a non-language domain the kind is never translation, a language-only
\* item_type resolves to quiz, and a language-only practice_type (any case,
\* any padding) is dropped and selects neither translation nor roleplay.
C9_DomainSafety ==
  (pc = "awaiting" /\ ~is_language_domain(kDomain)) =>
    /\ kind # "translation"
    /\ (Lower(kItemType) \in LANGUAGE_ONLY_TYPES => kind = "quiz")
    /\ (kPractice.t = "str" /\ Strip(Lower(kPractice.v)) \in LANGUAGE_ONLY_PRACTICE_TYPES)
         => (cur.practice_type = JNull /\ kind \notin {"translation", "roleplay"})

DirectTable ==
  [lesson |-> "content", quiz |-> "quiz", flashcard |-> "cards", task |-> "checklist",
   briefing |-> "briefing", feedback |-> "feedback", smart_lesson |-> "smart_lesson"]

PracticeTableClaimed ==
  [translation |-> "translation", exercise |-> "roleplay", dialogue |-> "roleplay",
   writing |-> "writing", speaking |-> "checklist"]

PracticeTableAmended ==
  [translation |-> "translation", exercise |-> "roleplay", dialogue |-> "roleplay",
   writing |-> "writing", speaking |-> "checklist", roleplay |-> "roleplay",
   quiz |-> "quiz", cards |-> "cards", flashcard |-> "cards",
   practice_speaking |-> "checklist", task |-> "checklist"]

\* the reference lookup of the claim, over a given practice_type table
RefLookup(table, item_type, practice_type) ==
  LET key == IF practice_type.t = "str" THEN Strip(Lower(practice_type.v)) ELSE <<>>
  IN IF Len(item_type) = 1 /\ item_type[1] \in DOMAIN DirectTable
     THEN DirectTable[item_type[1]]
     ELSE IF Len(key) = 1 /\ key[1] \in DOMAIN table THEN table[key[1]]
     ELSE "checklist"

\* C10 as claimed: after the pre-pass the kind is the reference lookup with the
\* five-entry practice_type table.
C10_RefLookupClaimed ==
  pc = "awaiting" =>
    kind = RefLookup(PracticeTableClaimed, cur.item_type, cur.practice_type)

\* C10 amended: the practice_type table also maps roleplay, quiz, cards,
\* flashcard, practice_speaking and task; the key is practice_type lowered
\* and stripped, item_type is matched exactly.
C10_RefLookupAmended ==
  pc = "awaiting" =>
    kind = RefLookup(PracticeTableAmended, cur.item_type, cur.practice_type)

C10_Witness ==
  /\ pc = "awaiting"
  /\ cur.item_type = <<"practice">>
  /\ cur.practice_type = JStr(<<"quiz">>)
  /\ kind = "quiz"

\* C13: no item of a kind other than content that generate_focus_item
\* returns, accepted from the LLM or made by the fallback, holds a forbidden
\* speak-aloud phrase in instructions_md, title, subtitle, content.prompt,
\* content.scene_title, content.proof_required or content.steps, whatever
\* topic and label the caller supplied
C13_NoForbiddenPhrase ==
  (pc = "returned" /\ kind # "content") => ForbiddenScan(result) = VOk

\* the target language the caller's call resolves to is written in a non-Latin script
NonLatinTarget ==
  LET target == resolve_target_language(call.settings, call.day_title, call.user_goal)
  IN target # <<>> /\ is_nonlatin_language(target)

\* more than half of the entries show a pure-ASCII string under the key
AsciiHeavy(x, key) ==
  /\ x.t = "list"
  /\ x.v # <<>>
  /\ \A i \in 1..Len(x.v) : x.v[i].t = "dict" /\ Get(x.v[i], key, NoStr).t = "str"
  /\ 2 * Cardinality({i \in 1..Len(x.v) : IsAscii(Get(x.v[i], key, NoStr).v)}) > Len(x.v)

\* the payload has an ASCII-heavy vocabulary_table, or a lesson_flow block
\* with ASCII-heavy letters
AsciiHeavyPayload(c) ==
  /\ c.t = "dict"
  /\ \/ AsciiHeavy(Get(c, "vocabulary_table", NoList), "word")
     \/ /\ Get(c, "lesson_flow", NoList).t = "list"
        /\ \E i \in 1..Len(Get(c, "lesson_flow", NoList).v) :
             /\ c.v["lesson_flow"].v[i].t = "dict"
             /\ AsciiHeavy(Get(c.v["lesson_flow"].v[i], "letters", NoList), "glyph")

\* the text received is a lesson for a non-Latin target that passed the
\* validator and is written mostly in ASCII (and the script check runs to its end)
MismatchedLesson ==
  /\ pc = "received"
  /\ kind = "content"
  /\ NonLatinTarget
  /\ outcome.o \in {"accept", "script_mismatch"}
  /\ AsciiHeavyPayload(Get(outcome.data, "content", EmptyDict))

\* C14: for kind content and a non-Latin target, a validated item whose
\* vocabulary words (or the glyphs of one lesson_flow block) are more than
\* 50% ASCII is not returned and one more attempt is made, at most
\* min(1, max_retries) times per call: never with max_retries = 0 and never
\* a second time
C14_ScriptMismatchRetry ==
  [][/\ script_retries' <= Min(1, call'.max_retries)
     /\ MismatchedLesson =>
          IF script_retries < Min(1, call.max_retries)
          THEN /\ pc' = "awaiting"
               /\ attempts' = attempts + 1
               /\ script_retries' = script_retries + 1
               /\ result' = result
          ELSE /\ pc' = "returned"
               /\ script_retries' = script_retries]_vars

\* C15: a returned item carries chain_version = "lesson_v2" exactly when
\* chained lesson context was used for it (preceding_lesson_content was
\* supplied and the prompt injected it, kind # content), for accepted LLM
\* items and for fallback items alike, briefing and feedback included
C15_ChainVersion ==
  pc = "returned" => (Get(result, "chain_version", JNull) = S("lesson_v2") <=> prompt.chained)

\* the fixed input type of each kind
FixedInputType(k) ==
  CASE k \in {"content", "cards", "briefing", "feedback"} -> "none"
    [] k \in {"quiz", "smart_lesson"} -> "choice"
    [] k = "translation" -> "multi_text"
    [] k \in {"roleplay", "writing", "checklist"} -> "text"
    [] k = "upload_review" -> "file"

\* C16: every returned item has input.type equal to the fixed type of its
\* kind (none for content, cards, briefing, feedback; choice for quiz and
\* smart_lesson; multi_text for translation; text for roleplay, writing and
\* checklist; file for upload_review), whatever the LLM wrote
C16_InputType ==
  pc = "returned" => Get(Get(result, "input", EmptyDict), "type", JNull) = S(FixedInputType(kind))

\* ------------------------------------------------------------------------
\* Claims on the Item Validator (SpecValidate)
\* ------------------------------------------------------------------------
Validated == verdict # NoVerdict

\* C11: _validate_focus_item is total: for every dict handed to it (fields
\* missing, a content that is not an object, list elements of the wrong type,
\* a correct_index that is not an integer) it returns a (bool, str) pair and
\* never raises
C11_ValidatorTotal == Validated => verdict.r \in {"ok", "fail"}

\* the kind field of the validated item
CandidateKind ==
  IF candidate.t = "dict" /\ Get(candidate, "kind", JNull).t = "str" /\ Len(candidate.v["kind"].v) = 1
  THEN candidate.v["kind"].v[1] ELSE "?"

\* (True, "")
Accepted == verdict.r = "ok"

\* exactly three options, each a non-empty string, none a placeholder token,
\* pairwise distinct after _normalize_for_match
ThreeDistinctOptions(options) ==
  /\ options.t = "list"
  /\ Len(options.v) = 3
  /\ \A i \in 1..3 :
       /\ options.v[i].t = "str"
       /\ options.v[i].v # <<>>
       /\ normalize_for_match(options.v[i].v) \notin PLACEHOLDER_OPTIONS
  /\ \A i, j \in 1..3 :
       i # j => normalize_for_match(options.v[i].v) # normalize_for_match(options.v[j].v)

\* a questions array, each question with three distinct real options
QuestionsWellFormed(content) ==
  /\ content.t = "dict"
  /\ Get(content, "questions", NoList).t = "list"
  /\ Get(content, "questions", NoList).v # <<>>
  /\ \A i \in 1..Len(content.v["questions"].v) :
       /\ content.v["questions"].v[i].t = "dict"
       /\ ThreeDistinctOptions(Get(content.v["questions"].v[i], "options", NoList))

\* C12: every quiz the validator accepts has, in each question, exactly 3
\* options that are pairwise distinct after case/diacritic normalization and
\* none of which is a placeholder; a quiz with a repeated option, an empty
\* option or only the legacy choices list is rejected
C12_QuizOptionsDistinct ==
  (Accepted /\ CandidateKind = "quiz") => QuestionsWellFormed(candidate.v["content"])

\* a micro task with exactly 3 options, none a placeholder token, a
\* correct_index inside them and an explanation
MicroTaskWellFormed(task) ==
  /\ task.t = "dict"
  /\ Get(task, "options", NoList).t = "list"
  /\ Len(Get(task, "options", NoList).v) = 3
  /\ \A i \in 1..3 :
       task.v["options"].v[i].t = "str" =>
         normalize_for_match(task.v["options"].v[i].v) \notin PLACEHOLDER_OPTIONS
  /\ IsNum(Get(task, "correct_index", JNull))
  /\ NumVal(task.v["correct_index"]) \in 0..2
  /\ Truthy(Get(task, "explanation", JNull))

\* C17: every smart_lesson the validator accepts has micro_task_1 and
\* micro_task_2, each with exactly 3 options none of which is a placeholder,
\* a correct_index in range and a non-empty explanation
C17_SmartLessonTasks ==
  (Accepted /\ CandidateKind = "smart_lesson") =>
     /\ MicroTaskWellFormed(Get(candidate.v["content"], "micro_task_1", JNull))
     /\ MicroTaskWellFormed(Get(candidate.v["content"], "micro_task_2", JNull))

\* ------------------------------------------------------------------------
\* Claims on content chaining (SpecChain)
\* ------------------------------------------------------------------------
\* the rows of kind content whose order_index is strictly below the current item's
EarlierLessons ==
  {i \in 1..Len(rows) :
     /\ rows[i].kind = "content"
     /\ IsNum(rows[i].order_index)
     /\ IsNum(CurrentOrder)
     /\ NumVal(rows[i].order_index) < NumVal(CurrentOrder)}

\* C18: for a practice item of a language domain, the lesson whose extract
\* is passed as preceding_lesson_content is the nearest earlier item of the
\* day with kind content (the greatest order_index strictly below the
\* current item's); no farther lesson and no item at or after the current
\* position is used
C18_NearestLesson ==
  chain.source # 0 =>
    /\ chain.source \in EarlierLessons
    /\ \A j \in EarlierLessons :
         NumVal(rows[j].order_index) <= NumVal(rows[chain.source].order_index)


\* a step of the handler taken while it reads the siblings or waits for the
\* nested lesson: no response, and the item generation or a nested lesson next
ChainingGoesOn ==
  chain_pc \in {"idle", "lesson"} =>
    /\ chain_pc' \in {"lesson", "item"}
    /\ response' = "none"
    /\ chain' # NoChain => chain'.parts # <<>>

\* C19: a chaining failure is not fatal. While the handler is reading the
\* siblings or waiting for the nested lesson, every step leaves it either
\* waiting for a (farther) nested lesson or generating the practice item, and
\* no response is produced; the item is generated with chained context only
\* when some lesson gave a non-empty extract.
C19_ChainingNonFatal == [][ChainingGoesOn]_vars

\* the nested lesson generation raised, no context could be extracted, and the
\* practice item was generated and returned all the same
C19_Witness ==
  /\ chain_pc = "responded"
  /\ response = "ok"
  /\ "Auto-lesson generation failed" \in chain_log
  /\ chain = NoChain
  /\ rows[current].content # JNull

\* ------------------------------------------------------------------------
\* Claims on the focus outline (SpecOutline)
\* ------------------------------------------------------------------------
OutlineDays(o) == Get(o, "days", JNull)

\* an outline with a title and a non-empty days list in which every day has
\* dayIndex, title, intro and items
ValidOutline(o) ==
  /\ o.t = "dict"
  /\ Truthy(Get(o, "title", JNull))
  /\ OutlineDays(o).t = "list"
  /\ OutlineDays(o).v # <<>>
  /\ \A i \in 1..Len(OutlineDays(o).v) :
       /\ OutlineDays(o).v[i].t = "dict"
       /\ {"dayIndex", "title", "intro", "items"} \subseteq DOMAIN OutlineDays(o).v[i].v

\* exactly duration_days days, indexed 1..duration_days, with the generic
\* day-number titles
FallbackShape(o, req) ==
  /\ OutlineDays(o).t = "list"
  /\ Len(OutlineDays(o).v) = req.duration_days
  /\ \A i \in 1..Len(OutlineDays(o).v) :
       /\ Get(OutlineDays(o).v[i], "dayIndex", JNull) = JInt(i)
       /\ Get(OutlineDays(o).v[i], "title", JNull) = DayTitle(IsHu(req.lang), JInt(i))

\* C20: generate_focus_outline never raises and always returns a valid
\* outline (a title, a non-empty days list, every day with dayIndex, title,
\* intro and items); when it fell back, the outline has exactly duration_days
\* days indexed 1..duration_days with the generic day-number titles.
C20_OutlineValid ==
  /\ outline_pc \in {"idle", "awaiting", "returned"}
  /\ outline_pc = "returned" =>
       /\ ValidOutline(outline)
       /\ "Fallback outline used" \in outline_log => FallbackShape(outline, outline_req)

\* ------------------------------------------------------------------------
\* Claims on the day normalisation (SpecNormalize)
\* ------------------------------------------------------------------------
\* the items of the day the caller handed over, and of the day returned
GivenItems == DayItems(norm_req.data).v
DoneItems == DayItems(norm_day).v

\* the minimums of the domain, read as the function and its consumers read
\* type and practice_type (lowered)
DomainMinimums(items, domain) ==
  IF DayIsLanguage(domain)
  THEN HasPractice(items, <<"exercise">>) /\ HasPractice(items, <<"translation">>) /\ HasPractice(items, <<"writing">>)
  ELSE HasQuiz(items) /\ HasPractice(items, <<"writing">>) /\ HasTask(items)

\* every given item is still there, at its place, under its id
ItemsKept(given, done) ==
  /\ Len(done) >= Len(given)
  /\ \A i \in 1..Len(given) : Get(done[i], "id", JNull) = Get(given[i], "id", JNull)

\* what follows the given items are stubs, at most three of them
OnlyStubsAppended(given, done) ==
  /\ Len(done) <= Len(given) + 3
  /\ \A i \in (Len(given) + 1)..Len(done) :
       Get(done[i], "id", JNull).v[Len(Get(done[i], "id", JNull).v)] \in {"-exercise-auto", "-translation-auto", "-writing-auto", "-quiz-auto", "-task-auto"}

\* C21: for every day the LLM wrote, _normalize_focus_day_items returns, and
\* the returned item list satisfies the minimums of the domain (language:
\* an exercise, a translation and a writing practice item; any other domain:
\* a quiz, a writing item and a task), every given item is kept and only
\* stubs are appended.
C21_DomainMinimums ==
  /\ norm_pc # "raised"
  /\ norm_pc \in {"once", "twice"} =>
       /\ DomainMinimums(DoneItems, norm_req.domain)
       /\ ItemsKept(GivenItems, DoneItems)
       /\ OnlyStubsAppended(GivenItems, DoneItems)

\* C21, the part that holds: whenever the function returns, the minimums
\* hold, every given item is kept and only stubs are appended.
C21_MinimumsWhenReturned ==
  norm_pc \in {"once", "twice"} =>
    /\ DomainMinimums(DoneItems, norm_req.domain)
    /\ ItemsKept(GivenItems, DoneItems)
    /\ OnlyStubsAppended(GivenItems, DoneItems)

\* the function raised on a day whose items are a list
C21_RaisedOnItemList ==
  /\ norm_pc = "raised"
  /\ norm_req.data.t = "dict"
  /\ DayItems(norm_req.data).t = "list"

\* C30: _normalize_focus_day_items is idempotent: normalising a normalised
\* day returns that day, with no item appended and no type or practice_type
\* changed.
C30_Idempotent ==
  norm_pc = "twice" => norm_day = norm_prev

\* a day was normalised twice whose first normalisation appended stubs and
\* rewrote a practice_type
C30_Witness ==
  /\ norm_pc = "twice"
  /\ Len(DayItems(norm_prev).v) > Len(GivenItems)
  /\ \E i \in 1..Len(GivenItems) : DayItems(norm_prev).v[i] # GivenItems[i]

\* ------------------------------------------------------------------------
\* Claims on the practice items of a room day (SpecTasks)
\* ------------------------------------------------------------------------
\* the tasks of the response
RespTasks == Get(tasks_resp, "tasks", JList(<<>>)).v

\* C22: the response of fetch_day_tasks holds exactly one task per practice
\* template, in template order, and each task is decided by its own template,
\* index and generation alone: its content is what its own
\* generate_focus_item call returned, or the fallback content of its kind
\* when that call raised, whatever the other generations did and in whatever
\* order they finished.
C22_TasksIndependent ==
  tasks_pc = "returned" =>
    /\ Len(RespTasks) = Len(PracticeTemplates(tasks_req.domain))
    /\ \A i \in 1..Len(RespTasks) :
         /\ Get(RespTasks[i], "kind", JNull) = S(PracticeTemplates(tasks_req.domain)[i].kind)
         /\ Get(RespTasks[i], "title", JNull) = JStr(PracticeTemplates(tasks_req.domain)[i].label)
         /\ Get(RespTasks[i], "id", JNull) = TaskItemId(tasks_req, PracticeTemplates(tasks_req.domain)[i], i)
         /\ Get(RespTasks[i], "content", JNull) =
              IF gen_llm[i].raised THEN fallback_content(PracticeTemplates(tasks_req.domain)[i].kind)
              ELSE gen_llm[i].value

\* three generations finished out of template order, one of them by raising
\* and another by returning
C22_Witness ==
  /\ tasks_pc = "returned"
  /\ Len(RespTasks) = 3
  /\ gen_order # <<1, 2, 3>>
  /\ \E i, j \in 1..3 : gen_llm[i].raised /\ ~gen_llm[j].raised

\* ------------------------------------------------------------------------
\* Claims on the stored content of an item (SpecItem)
\* ------------------------------------------------------------------------
\* the requests that generated and were answered with their item
Generators == {r \in Requests : req_resp[r].status = "ok" /\ ~req_resp[r].cached}

\* C23: whatever the interleaving of the requests for one uncached item, the
\* stored content is, at every moment and so after all of them finished, the
\* complete item of the request that wrote last, which is the item that
\* request returned; it is never put together from two generations.
C23_LastWriterWins ==
  /\ last_writer = 0 => item_row.content = JNull
  /\ last_writer # 0 =>
       /\ last_writer \in Generators
       /\ req_wrote[last_writer]
       /\ item_row.content = req_resp[last_writer].content

\* two requests were generating at the same time, both wrote, all requests
\* are done and the items of the two differ
C23_Witness ==
  /\ overlap
  /\ \A r \in Requests : req_pc[r] = "done"
  /\ \E r, q \in Generators :
       /\ r # q
       /\ req_wrote[r] /\ req_wrote[q]
       /\ req_resp[r].content # req_resp[q].content
       /\ last_writer = q

\* a request read content that a generation had saved
ReadSaved(r) == req_pc[r] # "new" /\ req_seen[r] # JNull

\* C29: every request that finds content saved by an earlier generation is
\* answered with that content and cached = true, makes no LLM call and
\* writes nothing.
C29_CacheAlwaysHits ==
  \A r \in Requests :
    ReadSaved(r) =>
      /\ req_pc[r] = "done"
      /\ req_resp[r] = [status |-> "ok", content |-> req_seen[r], cached |-> TRUE]
      /\ req_llm[r] = 0
      /\ ~req_wrote[r]

\* C29, the part that holds: outside the language domains, for a language
\* lesson saved as a language_lesson and for a practice item saved with the
\* chain marker, the saved content is served from the cache.
C29_CacheHitsWhenMarked ==
  \A r \in Requests :
    /\ ReadSaved(r)
    /\ \/ ~item_row.language
       \/ item_row.kind = "content" /\ ContentTypeOf(req_seen[r]) = S("language_lesson")
       \/ item_row.kind # "content" /\ Get(req_seen[r], "chain_version", JNull) = S("lesson_v2")
    => /\ req_pc[r] = "done"
       /\ req_resp[r] = [status |-> "ok", content |-> req_seen[r], cached |-> TRUE]
       /\ req_llm[r] = 0
       /\ ~req_wrote[r]

\* a request found the saved item of a language quiz generated without lesson
\* context and generated the item again
C29_RegeneratedUnchained ==
  \E r \in Requests :
    /\ ReadSaved(r)
    /\ item_row.language /\ item_row.kind = "quiz"
    /\ req_llm[r] = 1

\* ------------------------------------------------------------------------
\* Claims on the days of a plan (SpecPlan)
\* ------------------------------------------------------------------------
\* the step is a start-day call for plan p, a complete-day call for its day i
StartCall(p) == last_call'.op = "start" /\ last_call'.plan = p
CompleteCall(p, i) == last_call'.op = "complete" /\ last_call'.plan = p /\ last_call'.day = i

\* the days of a plan completed on the local date
CompletedOn(ds, date) == {i \in 1..Len(ds) : ds[i].completed_at # NoStamp /\ ds[i].completed_on = date}

\* start-day may start a day of these days today
MayStart(ds, today) == InProgressDays(ds) = {} /\ CompletedOn(ds, today) = {} /\ PendingDays(ds) # {}

\* day i, the lowest pending day, got its started_at and nothing else changed
StartedExactly(p, i) ==
  /\ Pending(plan_days[p][i])
  /\ \A j \in 1..(i - 1) : ~Pending(plan_days[p][j])
  /\ plan_days'[p][i].started_at # NoStamp
  /\ plan_days'[p][i].completed_at = NoStamp
  /\ \A j \in 1..DaysPerPlan : j # i => plan_days'[p][j] = plan_days[p][j]
  /\ last_call'.day = i
  /\ last_call'.status = "started"

\* what a start-day call for plan p does
StartDayEffect(p) ==
  /\ \A q \in Plans : q # p => plan_days'[q] = plan_days[q]
  /\ stats_rows' = stats_rows
  /\ IF MayStart(plan_days[p], Today(clock))
     THEN \E i \in 1..DaysPerPlan : StartedExactly(p, i)
     ELSE /\ plan_days' = plan_days
          /\ (InProgressDays(plan_days[p]) # {} =>
                /\ last_call'.status = "in_progress"
                /\ InProgress(plan_days[p][last_call'.day]))
          /\ (CompletedOn(plan_days[p], Today(clock)) # {} => last_call'.status # "started")

\* at most one day of every plan is in progress
OneInProgress == \A p \in Plans : Cardinality(InProgressDays(plan_days[p])) <= 1

\* the days of a plan were started in the order of day_index
StartedInOrder ==
  \A p \in Plans : \A i, j \in 1..DaysPerPlan :
    (i < j /\ plan_days[p][j].started_at # NoStamp) =>
      /\ plan_days[p][i].started_at # NoStamp
      /\ plan_days[p][i].started_on < plan_days[p][j].started_on

StartDayStep == \A p \in Plans : StartCall(p) => StartDayEffect(p)

\* C24: start-day changes state in one situation only: with no day of the
\* plan in progress and none completed today it sets started_at on exactly
\* the lowest pending day; with a day in progress it returns that day and
\* writes nothing; with a day completed today it starts none. So at most one
\* day per plan is in progress and days are started in day_index order.
C24_StartDay == [](OneInProgress /\ StartedInOrder) /\ [][StartDayStep]_vars

C24_Witness ==
  /\ last_call.op = "start"
  /\ last_call.status = "started"
  /\ last_call.day = 2
  /\ InProgress(plan_days[last_call.plan][2])
  /\ plan_days[last_call.plan][1].completed_at # NoStamp

\* complete-day may mark day i of these days completed today
MayComplete(ds, i, today) ==
  /\ i \in 1..Len(ds)
  /\ ds[i].started_at # NoStamp
  /\ ds[i].started_on = today
  /\ \A j \in 1..Len(ds) : j # i => j \notin CompletedOn(ds, today)

\* the step marks day i of plan p completed
MarkedCompleted(p, i) ==
  /\ i \in 1..DaysPerPlan
  /\ plan_days[p][i].completed_at = NoStamp
  /\ plan_days'[p][i].completed_at # NoStamp

\* what a complete-day call for day i of plan p does
CompleteDayEffect(p, i) ==
  IF MarkedCompleted(p, i)
  THEN /\ MayComplete(plan_days[p], i, Today(clock))
       /\ plan_days'[p][i].completed_on = Today(clock)
       /\ \A q \in Plans, j \in 1..DaysPerPlan : (q # p \/ j # i) => plan_days'[q][j] = plan_days[q][j]
  ELSE plan_days' = plan_days /\ stats_rows' = stats_rows

CompleteDayStep ==
  \A p \in Plans, i \in 1..(DaysPerPlan + 1) : CompleteCall(p, i) => CompleteDayEffect(p, i)

\* no plan has two days completed on one calendar date
OneCompletionPerDate ==
  \A p \in Plans, date \in 1..MaxDate : Cardinality(CompletedOn(plan_days[p], date)) <= 1

\* C25: complete-day marks a day completed only if it was started, started
\* on today's calendar date, and no other day of the plan was completed
\* today; otherwise the day and the streak stay as they were. So no plan
\* ever has two days completed on one calendar date.
C25_CompleteDay == []OneCompletionPerDate /\ [][CompleteDayStep]_vars

C25_Witness ==
  /\ last_call.op = "complete"
  /\ last_call.status = "day_completed"
  /\ last_call.day = 2
  /\ plan_days[last_call.plan][1].completed_at # NoStamp
  /\ plan_days[last_call.plan][2].completed_on = Today(clock)
  /\ plan_days[last_call.plan][1].completed_on < Today(clock)

\* how many calls and changes of date a run from a state is followed for
Horizon == 8

\* a plan's days and the clock after one more call on the plan or one more
\* change of date
PlanMoves(st) ==
  {[ds |-> st.ds, at |-> Later(st.at)], [ds |-> AfterStart(st.ds, st.at), at |-> st.at]}
    \cup {[ds |-> AfterComplete(st.ds, i, st.at), at |-> st.at] : i \in 1..Len(st.ds)}

RECURSIVE ReachableWithin(_, _)
ReachableWithin(sts, n) ==
  IF n = 0 THEN sts ELSE ReachableWithin(sts \cup UNION {PlanMoves(st) : st \in sts}, n - 1)

\* day i is completed and the day after it, if there is one, is started
Finished(ds, i) ==
  /\ ds[i].completed_at # NoStamp
  /\ (i < Len(ds) => ds[i + 1].started_at # NoStamp)

\* some sequence of start-day and complete-day calls, today or on later
\* dates, finishes day i
CanBeFinished(ds, at, i) ==
  \E st \in ReachableWithin({[ds |-> ds, at |-> at]}, Horizon) : Finished(st.ds, i)

\* C26: no plan gets stuck: from every reachable state every uncompleted day
\* of every plan, a day started on an earlier date included, can still be
\* completed and the day after it started by some sequence of start-day and
\* complete-day calls on later dates.
C26_NoPlanStuck ==
  \A p \in Plans, i \in 1..DaysPerPlan :
    plan_days[p][i].completed_at = NoStamp => CanBeFinished(plan_days[p], clock, i)

\* ------------------------------------------------------------------------
\* Claims on concurrent complete-day requests (SpecStreak)
\* ------------------------------------------------------------------------
\* the user's streak: 0 before the first row
Streak == IF stats_rows = <<>> THEN 0 ELSE stats_rows[1].streak

\* the local dates on which a day of some plan was completed
CompletionDates == {date \in 1..MaxDate : \E p \in Plans : CompletedOn(plan_days[p], date) # {}}

\* the streak goes up by one at most, and only on a date it has not gone up on
StreakStep ==
  /\ Streak' \in {Streak, Streak + 1}
  /\ (Streak' = Streak + 1 =>
        /\ stats_rows'[1].last_streak_date = Today(clock)
        /\ (stats_rows # <<>> => stats_rows[1].last_streak_date < Today(clock)))

\* one row once a day was completed, none before
OneStatsRow == Len(stats_rows) = IF CompletionDates = {} THEN 0 ELSE 1

C27_SameDayTwice ==
  /\ last_call.op = "complete"
  /\ last_call.status = "already_completed"
  /\ last_call.overlapped
  /\ plan_days[last_call.plan][last_call.day].completed_on = Today(clock)

\* ------------------------------------------------------------------------
\* Claims on the items written to the prompt (SpecPrompt)
\* ------------------------------------------------------------------------
\* C28: the prompt and the validator agree: an item of any kind whose content
\* has exactly the field names and shapes the content spec of the prompt
\* prescribes for the kind is accepted by _validate_focus_item, which
\* neither rejects it nor raises.
C28_PromptItemsAccepted == verdict # NoVerdict => verdict = VOk

====
